---- MODULE Spec2Model ----
(***************************************************************************)
(* Model of the download orchestrator of SpotiFLAC-Docker                  *)
(* (app/core/service.py): the job registry, the work queue, the worker     *)
(* coroutines, the per-job and global subscriber queues.                   *)
(*                                                                         *)
(* The service runs on one asyncio event loop.  A coroutine runs without   *)
(* interruption from one await to the next, so a worker is either parked   *)
(* at an await ("idle": queue.get, "resolve": playlist_provider.resolve,   *)
(* "download": store.download_track) or it is inside a synchronous         *)
(* section ("exec", "loop", "finish", and "next": back at queue.get() with *)
(* an id waiting, which get() returns without suspending).  While one      *)
(* worker is inside a synchronous section nothing else runs (Busy).  The   *)
(* synchronous sections are split into steps so that every assignment to   *)
(* job.status and every notification is a step of its own.                 *)
(***************************************************************************)
EXTENDS Integers, Sequences, FiniteSets, TLC

\* ------------------------------------------------------------------ bounds
MaxJobs == 2
MaxTracks == 3
MaxSubs == 2
MaxCancels == 2
NumPaths == 2
MaxWorkers == 2

\* ------------------------------------------------------- program constants
JobQueueMaxsize == 100
GlobalQueueMaxsize == 200
DefaultWorkerConcurrency == 1

None == "None"
NoTime == -1

ChanIds == 1..MaxSubs
Paths == 1..NumPaths

\* StoreType members a request can name, and the ones the registry holds.
StoreTypes == {"qobuz", "tidal"}
store_providers == {"qobuz"}

PENDING == "pending"
RUNNING == "running"
COMPLETED == "completed"
FAILED == "failed"
CANCELLED == "cancelled"
JobStatus == {PENDING, RUNNING, COMPLETED, FAILED, CANCELLED}

finished(status) == status \in {COMPLETED, FAILED, CANCELLED}

\* Messages and errors the service writes.
MsgCancelRequested == "cancel requested by user"
MsgCancelled == "job cancelled"
ErrStoreUnavailable == "store provider unavailable"
ErrEmptyTracks == "track list is empty"
ErrResolve == "resolve failed"
ErrNotStarted == "service not started"
ErrTemplate == "KeyError"
JobCancelled == "JobCancelled"
NoExc == "NoExc"
QueueFull == "QueueFull"

\* ---------------------------------------------------------------- inputs
\* A track as the orchestrator sees it: whether it carries an ISRC and the
\* destination storage.build_track_path gives it.
TrackKinds == [isrc : BOOLEAN, dest : Paths]
Tracks == {t \in TrackKinds : t.isrc \/ t.dest = 1}
TrackLists == UNION {[1..n -> Tracks] : n \in 0..MaxTracks}
\* What resolve can return: a named collection with any track list, or a
\* source without a name.
ResolvedSources ==
    [name : {"Mix"}, source_type : {"playlist"}, tracks : TrackLists]
    \cup {[name |-> None, source_type |-> "track", tracks |-> <<[isrc |-> TRUE, dest |-> 1]>>]}

\* A request names a store and a path template; of the template only the
\* set of fields it references is kept.
Requests == {[store |-> "qobuz", template_fields |-> {"artist", "title", "ext"}],
             [store |-> "tidal", template_fields |-> {"artist", "title", "ext"}],
             [store |-> "qobuz", template_fields |-> {"year", "title", "ext"}]}

\* What the environment of one run does at most: how many jobs the clients
\* submit, how many tracks a source has, how many subscriber queues the
\* clients hold, how many cancel_job calls they make on known jobs; the
\* configured worker concurrency; which requests the clients make, whether
\* the playlist provider answers within the run, whether the service is
\* ever stopped, whether the clients read
\* their queues, what they subscribe to and from which size of the registry
\* on, and the length of a long source (0: none).
\* Profile: a run of ordinary clients, who make any request, read the
\* queues they hold, and subscribe to jobs and to the service whenever
\* they like; sources have up to `tracks` tracks.
Profile(jobs, tracks, subs, cancels, concurrency) ==
    [jobs |-> jobs, tracks |-> tracks, subs |-> subs, cancels |-> cancels,
     worker_concurrency |-> concurrency,
     requests |-> Requests, resolves |-> TRUE, stops |-> TRUE, reads |-> TRUE,
     watch |-> {"job", "global"}, subscribe_from |-> 0, burst |-> 0]

\* A run is either about several jobs or about one job and its subscribers,
\* or about one job with longer sources and repeated cancellation.
Profiles ==
    {Profile(MaxJobs, 2, 0, 1, DefaultWorkerConcurrency),
     Profile(1, 1, MaxSubs, 1, DefaultWorkerConcurrency),
     Profile(1, MaxTracks, 0, MaxCancels, 0)}

\* A request for a configured store with a template the storage can render.
PlainRequest == [store |-> "qobuz", template_fields |-> {"artist", "title", "ext"}]

\* The smallest run in which every operation of the service takes place.
BaseProfile == Profile(1, 1, 1, 1, DefaultWorkerConcurrency)

\* A run whose subscribers never read.  A source has so many tracks that a
\* per-job queue fills up during the track loop, and that a global queue
\* opened while the source was being resolved (the running snapshot, the
\* resolved one, one per track, the final one) is exactly full when the job
\* ends.
BurstLen == GlobalQueueMaxsize - 3
OverflowProfiles ==
    {BaseProfile,
     [Profile(1, 0, MaxSubs, 1, DefaultWorkerConcurrency)
        EXCEPT !.requests = {PlainRequest}, !.reads = FALSE,
               !.burst = BurstLen],
     [Profile(MaxJobs, 0, 1, 0, DefaultWorkerConcurrency)
        EXCEPT !.requests = {PlainRequest}, !.reads = FALSE,
               !.watch = {"global"}, !.burst = BurstLen]}

\* A run in which the registry outgrows the capacity of a global queue
\* before a client subscribes to the service, while the playlist provider
\* is still busy with the first source and nobody stops the service.
RegistrySize == GlobalQueueMaxsize + 1
RegistryProfiles ==
    {BaseProfile,
     [Profile(RegistrySize, 0, 1, 0, DefaultWorkerConcurrency)
        EXCEPT !.requests = {PlainRequest}, !.resolves = FALSE, !.stops = FALSE,
               !.reads = FALSE,
               !.watch = {"global"}, !.subscribe_from = RegistrySize]}

\* A run in which clients cancel the same job repeatedly while others
\* listen.
CancelProfiles ==
    {Profile(1, 1, MaxSubs, MaxCancels, DefaultWorkerConcurrency)}

\* Runs in which several jobs meet a pool of one worker or of several.
PoolProfiles ==
    {BaseProfile,
     Profile(MaxJobs, 1, 0, 1, DefaultWorkerConcurrency),
     Profile(MaxJobs, 1, 0, 1, MaxWorkers),
     Profile(1, 1, 0, 1, 0)}

VARIABLES
    started,             \* DownloadService._started
    jobs,                \* DownloadService._jobs: id -> JobState
    queue,               \* DownloadService._queue (ids not yet taken)
    unfinished,          \* asyncio.Queue._unfinished_tasks of _queue
    global_subscribers,  \* DownloadService._global_subscribers
    chans,               \* contents of the subscriber queues handed out
    workers,             \* DownloadService._workers: position of each task
    files,               \* destinations that exist on disk
    track_log,           \* per job: the outcome of each track the loop has handled
    resolved,            \* per job: what playlist_provider.resolve returned
    env,                 \* the run's clients and configuration (a member of Profiles)
    ncancel,             \* number of cancel_job calls made so far
    stores,              \* per store provider: its _lock and its downloader's threads
    last                 \* outcome of the last public call

vars == <<started, jobs, queue, unfinished, global_subscribers, chans, workers,
          files, track_log, resolved, env, ncancel, stores, last>>

\* The ids uuid4 hands out in this run, in the order of submission.
JobIds == 1..env.jobs

\* --------------------------------------------------------------- progress
\* progress is a float in the code; it is kept as the exact ratio num/den.
Ratio(n, d) == [num |-> n, den |-> d]
RatioLeq(a, b) == a.num * b.den <= b.num * a.den
RatioEq(a, b) == a.num * b.den = b.num * a.den
Zero == Ratio(0, 1)
One == Ratio(1, 1)
RatioMin(a, b) == IF RatioLeq(a, b) THEN a ELSE b
RatioMax(a, b) == IF RatioLeq(a, b) THEN b ELSE a

clamp_progress(done, total) ==
    IF total <= 0 THEN Zero
    ELSE RatioMax(Zero, RatioMin(One, Ratio(done, total)))

\* ------------------------------------------------------------ job records

\* DownloadJob as submit_job constructs it (the dataclass defaults included).
DownloadJob(job_id, request) ==
    [id |-> job_id,
     store |-> request.store,
     path_template |-> request.template_fields,
     status |-> PENDING,
     progress |-> Zero,
     total_tracks |-> 0,
     completed_tracks |-> 0,
     failed_tracks |-> 0,
     message |-> None,
     error |-> None,
     finished_at |-> NoTime,
     downloaded_files |-> << >>,
     collection_name |-> None]

JobState(job) == [job |-> job, subscribers |-> << >>, cancel_requested |-> FALSE]

\* DownloadJob.snapshot: a flat copy of the record's fields.
snapshot(job) ==
    [id |-> job.id,
     store |-> job.store,
     status |-> job.status,
     progress |-> job.progress,
     total_tracks |-> job.total_tracks,
     completed_tracks |-> job.completed_tracks,
     failed_tracks |-> job.failed_tracks,
     message |-> job.message,
     error |-> job.error,
     finished_at |-> job.finished_at,
     downloaded_files |-> job.downloaded_files,
     collection_name |-> job.collection_name]

\* ------------------------------------------------------ subscriber queues
NoChan == [maxsize |-> 0, items |-> << >>]
FreeChans == {q \in 1..env.subs : chans[q] = NoChan}
\* The queue object a subscribe call creates.
NewQueue == CHOOSE q \in FreeChans : \A r \in FreeChans : q <= r

Remove(seq, x) ==
    LET keep == {i \in 1..Len(seq) : seq[i] # x}
        F[i \in 0..Len(seq)] ==
            IF i = 0 THEN << >>
            ELSE IF i \in keep THEN Append(F[i - 1], seq[i]) ELSE F[i - 1]
    IN F[Len(seq)]

Contains(seq, x) == \E i \in 1..Len(seq) : seq[i] = x

RECURSIVE put_all_front(_, _, _, _, _)
put_all_front(listed, i, subs, chs, snap) ==
    IF i > Len(listed) THEN [subscribers |-> subs, chans |-> chs]
    ELSE LET q == listed[i] IN
         IF Len(chs[q].items) < chs[q].maxsize
         THEN put_all_front(listed, i + 1, subs,
                            [chs EXCEPT ![q].items = <<snap>> \o @], snap)
         ELSE put_all_front(listed, i + 1, Remove(subs, q), chs, snap)

RECURSIVE put_all_keeps_full(_, _, _, _, _)
put_all_keeps_full(listed, i, subs, chs, snap) ==
    IF i > Len(listed) THEN [subscribers |-> subs, chans |-> chs]
    ELSE LET q == listed[i] IN
         IF Len(chs[q].items) < chs[q].maxsize
         THEN put_all_keeps_full(listed, i + 1, subs,
                                 [chs EXCEPT ![q].items = Append(@, snap)], snap)
         ELSE put_all_keeps_full(listed, i + 1, subs, chs, snap)

\* The loop of JobState.notify and of _broadcast: put_nowait on a copy of the
\* list, in order; a full queue is removed from the list.
RECURSIVE put_all(_, _, _, _, _)
put_all(listed, i, subs, chs, snap) ==
    IF i > Len(listed) THEN [subscribers |-> subs, chans |-> chs]
    ELSE LET q == listed[i] IN
         IF Len(chs[q].items) < chs[q].maxsize
         THEN put_all(listed, i + 1, subs,
                      [chs EXCEPT ![q].items = Append(@, snap)], snap)
         ELSE put_all(listed, i + 1, Remove(subs, q), chs, snap)

notify(state, chs) == put_all(state.subscribers, 1, state.subscribers, chs, snapshot(state.job))

_broadcast_skipped(state, gsubs, chs) == [subscribers |-> gsubs, chans |-> chs]

_broadcast(state, gsubs, chs) == put_all(gsubs, 1, gsubs, chs, snapshot(state.job))

\* state.notify() followed by self._broadcast(state), for job j of registry js.
Publish(js, gsubs, chs, j) ==
    LET n == notify(js[j], chs)
        b == _broadcast(js[j], gsubs, n.chans)
    IN [jobs |-> [js EXCEPT ![j].subscribers = n.subscribers],
        global_subscribers |-> b.subscribers,
        chans |-> b.chans]

\* ---------------------------------------------------------------- workers
Idle == [pc |-> "idle", job_id |-> 0, idx |-> 0, exc |-> NoExc]

AtGet_exits(q) == [Idle EXCEPT !.pc = "done"]

\* The top of the loop of _worker: queue.get() suspends on an empty queue.
AtGet(q) == [Idle EXCEPT !.pc = IF q = << >> THEN "idle" ELSE "next"]

SyncPcs == {"next", "exec", "loop", "finish"}
Busy == \E w \in DOMAIN workers : workers[w].pc \in SyncPcs

worker_concurrency_unclamped == env.worker_concurrency

\* DownloadService.__init__: max(1, worker_concurrency)
worker_concurrency == IF env.worker_concurrency > 1 THEN env.worker_concurrency ELSE 1

\* datetime.utcnow() where finished_at is set.  Time is logical: each job
\* that finishes does so at a later instant than the ones before it.
utcnow == 1 + Cardinality({j \in DOMAIN jobs : finished(jobs[j].job.status)})

NoCall == [op |-> "none", id |-> 0, result |-> None]
Call(op, id, result) == [op |-> op, id |-> id, result |-> result]

NotResolved == [outcome |-> "none", name |-> None, source_type |-> None, tracks |-> << >>]
ResolveFailed == [outcome |-> "error", name |-> None, source_type |-> None, tracks |-> << >>]
Resolved(src) == [outcome |-> "ok", name |-> src.name, source_type |-> src.source_type,
                  tracks |-> src.tracks]

\* A store provider (store_providers.py): the worker task that holds its
\* _lock (0: nobody), the tasks waiting for it in the order they came, and
\* the calls of its downloader that still run in a thread of
\* asyncio.to_thread after the task awaiting them was cancelled.
Unlocked == [owner |-> 0, waiters |-> << >>, orphans |-> 0]

\* async with self._lock, entered by the task of worker w: it takes a free
\* lock without suspending and starts the downloader in a thread.
acquire(store, w) ==
    IF store.owner = 0 THEN [store EXCEPT !.owner = w]
    ELSE [store EXCEPT !.waiters = Append(@, w)]

release_never(store) == store

\* Leaving async with: the lock goes to the task that has waited longest,
\* which starts its own thread.
release(store) ==
    IF store.waiters = << >> THEN [store EXCEPT !.owner = 0]
    ELSE [store EXCEPT !.owner = Head(store.waiters), !.waiters = Tail(store.waiters)]

\* Every task inside download_track is cancelled: the waiting ones leave the
\* queue of the lock, the one awaiting to_thread leaves async with and so
\* frees the lock, while the thread it started runs on.
abandon(store) ==
    [owner |-> 0, waiters |-> << >>,
     orphans |-> store.orphans + (IF store.owner # 0 THEN 1 ELSE 0)]

\* What lies under the download root before the service starts.
InitialFiles == {{}, {1}}

\* ------------------------------------------------------------------- Init
\* The service as __init__ leaves it, in a run of one of the given profiles.
InitIn(profiles) ==
    /\ env \in profiles
    /\ started = FALSE
    /\ jobs = << >>
    /\ queue = << >>
    /\ unfinished = 0
    /\ global_subscribers = << >>
    /\ chans = [q \in ChanIds |-> NoChan]
    /\ workers = << >>
    /\ files \in InitialFiles
    /\ track_log = [j \in JobIds |-> << >>]
    /\ resolved = [j \in JobIds |-> NotResolved]
    /\ ncancel = 0
    /\ stores = [s \in store_providers |-> Unlocked]
    /\ last = NoCall

Init == InitIn(Profiles)

\* ------------------------------------------------------ service lifecycle
\* DownloadService.start
Start ==
    /\ ~Busy
    /\ IF started
       THEN UNCHANGED <<started, workers>>
       ELSE /\ workers' = [w \in 1..worker_concurrency |-> Idle]
            /\ started' = TRUE
    /\ last' = Call("start", 0, "ok")
    /\ UNCHANGED <<jobs, queue, unfinished, global_subscribers, chans, files,
                   track_log, resolved, env, ncancel, stores>>

track_finally_stale(state) == state

\* The finally block of the track loop (service.py 280-284).
track_finally(state) ==
    [state EXCEPT !.job.progress =
        clamp_progress(state.job.completed_tracks, state.job.total_tracks)]

\* worker.cancel() delivered to each task at the await it is parked at: a
\* task inside download_track unwinds through the finally block of the track
\* loop; every task that holds a queue item runs task_done on its way out.
RECURSIVE cancel_workers(_, _, _, _, _)
cancel_workers(w, js, gsubs, chs, unf) ==
    IF w > Len(workers)
    THEN [jobs |-> js, global_subscribers |-> gsubs, chans |-> chs, unfinished |-> unf]
    ELSE IF workers[w].pc = "download"
    THEN LET j == workers[w].job_id
             p == Publish([js EXCEPT ![j] = track_finally(js[j])], gsubs, chs, j)
         IN cancel_workers(w + 1, p.jobs, p.global_subscribers, p.chans, unf - 1)
    ELSE IF workers[w].pc = "resolve"
    THEN cancel_workers(w + 1, js, gsubs, chs, unf - 1)
    ELSE cancel_workers(w + 1, js, gsubs, chs, unf)

\* DownloadService.stop
Stop ==
    /\ ~Busy
    /\ env.stops
    /\ IF ~started
       THEN UNCHANGED <<started, workers, jobs, global_subscribers, chans, unfinished,
                        stores>>
       ELSE LET r == cancel_workers(1, jobs, global_subscribers, chans, unfinished) IN
            /\ jobs' = r.jobs
            /\ stores' = [s \in DOMAIN stores |-> abandon(stores[s])]
            /\ global_subscribers' = r.global_subscribers
            /\ chans' = r.chans
            /\ unfinished' = r.unfinished
            /\ workers' = << >>
            /\ started' = FALSE
    /\ last' = Call("stop", 0, "ok")
    /\ UNCHANGED <<queue, files, track_log, resolved, env, ncancel>>

\* ------------------------------------------------------------ public calls
not_started_unchecked == FALSE

\* The test submit_job opens with (service.py 117).
not_started == ~started

put_lost(q, job_id) == q
put_twice(q, job_id) == q \o <<job_id, job_id>>
put_front(q, job_id) == <<job_id>> \o q

\* self._queue.put(job_id) on the unbounded queue (service.py 137).
put(q, job_id) == Append(q, job_id)

\* DownloadService.submit_job
SubmitJob ==
    /\ ~Busy
    /\ \E request \in env.requests :
        IF not_started
        THEN /\ last' = Call("submit_job", 0, ErrNotStarted)
             /\ UNCHANGED <<jobs, queue, unfinished, global_subscribers, chans>>
        ELSE /\ Len(jobs) < env.jobs
             /\ LET job_id == Len(jobs) + 1
                    p == Publish(Append(jobs, JobState(DownloadJob(job_id, request))),
                                 global_subscribers, chans, job_id)
                IN /\ jobs' = p.jobs
                   /\ global_subscribers' = p.global_subscribers
                   /\ chans' = p.chans
                   /\ queue' = put(queue, job_id)
                   /\ unfinished' = unfinished + 1
                   /\ last' = Call("submit_job", job_id, "ok")
    /\ UNCHANGED <<started, workers, files, track_log, resolved, env, ncancel, stores>>

cancel_sets_status(state) ==
    [state EXCEPT !.cancel_requested = TRUE,
                  !.job.message = MsgCancelRequested,
                  !.job.status = CANCELLED]

cancel_leaves_flag(state) == [state EXCEPT !.job.message = MsgCancelRequested]

cancel_sets_finished_at(state) ==
    [state EXCEPT !.cancel_requested = TRUE,
                  !.job.message = MsgCancelRequested,
                  !.job.finished_at = utcnow]

cancel_toggles_flag(state) ==
    [state EXCEPT !.cancel_requested = ~@,
                  !.job.message = MsgCancelRequested]

cancel_sets_error(state) ==
    [state EXCEPT !.cancel_requested = TRUE,
                  !.job.message = MsgCancelRequested,
                  !.job.error = MsgCancelRequested]

\* The assignments of cancel_job (service.py 178-180).
cancel_update(state) ==
    [state EXCEPT !.cancel_requested = TRUE,
                  !.job.message = MsgCancelRequested]

\* DownloadService.cancel_job
CancelJob ==
    /\ ~Busy
    /\ \E job_id \in JobIds :
        IF job_id \notin DOMAIN jobs
        THEN /\ env.cancels > 0
             /\ last' = Call("cancel_job", job_id, "false")
             /\ UNCHANGED <<jobs, global_subscribers, chans, ncancel>>
        ELSE /\ ncancel < env.cancels
             /\ ncancel' = ncancel + 1
             /\ LET p == Publish([jobs EXCEPT ![job_id] = cancel_update(@)],
                                 global_subscribers, chans, job_id)
                IN /\ jobs' = p.jobs
                   /\ global_subscribers' = p.global_subscribers
                   /\ chans' = p.chans
             /\ last' = Call("cancel_job", job_id, "true")
    /\ UNCHANGED <<started, queue, unfinished, workers, files, track_log, resolved,
                   env, stores>>

seed_job_empty(state) == << >>

\* What subscribe_job puts on the new queue (service.py 153).
seed_job(state) == <<snapshot(state.job)>>

\* DownloadService.subscribe_job (an unknown id raises KeyError: no effect)
SubscribeJob ==
    /\ ~Busy
    /\ FreeChans # {}
    /\ "job" \in env.watch
    /\ Len(jobs) >= env.subscribe_from
    /\ \E job_id \in DOMAIN jobs :
        /\ jobs' = [jobs EXCEPT ![job_id].subscribers = Append(@, NewQueue)]
        /\ chans' = [chans EXCEPT ![NewQueue] =
                        [maxsize |-> JobQueueMaxsize, items |-> seed_job(jobs[job_id])]]
    /\ last' = NoCall
    /\ UNCHANGED <<started, queue, unfinished, global_subscribers, workers, files,
                   track_log, resolved, env, ncancel, stores>>

Listed(q, js, gsubs) ==
    \/ Contains(gsubs, q)
    \/ \E j \in DOMAIN js : Contains(js[j].subscribers, q)

\* The client lets go of a queue it has unsubscribed (or that was dropped).
Release(chs, q, js, gsubs) ==
    IF Listed(q, js, gsubs) THEN chs ELSE [chs EXCEPT ![q] = NoChan]

\* DownloadService.unsubscribe_job
UnsubscribeJob ==
    /\ ~Busy
    /\ "job" \in env.watch
    /\ \E job_id \in DOMAIN jobs, q \in ChanIds \ FreeChans :
        LET js == [jobs EXCEPT ![job_id].subscribers = Remove(@, q)] IN
        /\ jobs' = js
        /\ chans' = Release(chans, q, js, global_subscribers)
    /\ last' = NoCall
    /\ UNCHANGED <<started, queue, unfinished, global_subscribers, workers, files,
                   track_log, resolved, env, ncancel, stores>>

\* The snapshots subscribe_global puts on the new queue, one put_nowait per
\* job of the registry in insertion order (service.py 166-167).
seed_global(js) == [j \in 1..Len(js) |-> snapshot(js[j].job)]

\* DownloadService.subscribe_global: the queue joins the list first (165);
\* put_nowait on a queue that already holds maxsize items raises QueueFull,
\* which nothing catches.
SubscribeGlobal ==
    /\ ~Busy
    /\ FreeChans # {}
    /\ "global" \in env.watch
    /\ Len(jobs) >= env.subscribe_from
    /\ global_subscribers' = Append(global_subscribers, NewQueue)
    /\ LET seeds == seed_global(jobs) IN
        IF Len(seeds) <= GlobalQueueMaxsize
        THEN /\ chans' = [chans EXCEPT ![NewQueue] =
                            [maxsize |-> GlobalQueueMaxsize, items |-> seeds]]
             /\ last' = Call("subscribe_global", 0, "ok")
        ELSE /\ chans' = [chans EXCEPT ![NewQueue] =
                            [maxsize |-> GlobalQueueMaxsize,
                             items |-> SubSeq(seeds, 1, GlobalQueueMaxsize)]]
             /\ last' = Call("subscribe_global", 0, QueueFull)
    /\ UNCHANGED <<started, jobs, queue, unfinished, workers, files, track_log,
                   resolved, env, ncancel, stores>>

\* DownloadService.unsubscribe_global
UnsubscribeGlobal ==
    /\ ~Busy
    /\ \E q \in ChanIds \ FreeChans :
        LET gs == Remove(global_subscribers, q) IN
        /\ global_subscribers' = gs
        /\ chans' = Release(chans, q, jobs, gs)
    /\ last' = NoCall
    /\ UNCHANGED <<started, jobs, queue, unfinished, workers, files, track_log,
                   resolved, env, ncancel, stores>>

\* A client reads the next snapshot of a queue it holds (queue.get).
Get ==
    /\ ~Busy
    /\ env.reads
    /\ \E q \in ChanIds :
        /\ chans[q].items # << >>
        /\ chans' = [chans EXCEPT ![q].items = Tail(@)]
    /\ last' = NoCall
    /\ UNCHANGED <<started, jobs, queue, unfinished, global_subscribers, workers,
                   files, track_log, resolved, env, ncancel, stores>>

\* ----------------------------------------------------------------- worker
ContextKeys_any == {"artist", "album", "title", "track", "ext", "playlist", "year"}

\* Keys of the context storage.build_track_path hands to render_path; a
\* template field outside them makes str.format raise KeyError.
ContextKeys == {"artist", "album", "title", "track", "ext", "playlist"}

worker_accepts_none(status) == FALSE

\* The guard of _worker (service.py 193).
worker_accepts(status) == status \in {PENDING, FAILED}

\* _worker, from queue.get() to the RUNNING notification (service.py 187-199)
WorkerGet(w) ==
    /\ \/ workers[w].pc = "next"
       \/ workers[w].pc = "idle" /\ ~Busy
    /\ queue # << >>
    /\ LET job_id == Head(queue) IN
        /\ queue' = Tail(queue)
        /\ IF job_id \notin DOMAIN jobs \/ ~worker_accepts(jobs[job_id].job.status)
           THEN /\ unfinished' = unfinished - 1
                /\ workers' = [workers EXCEPT ![w] = AtGet(Tail(queue))]
                /\ UNCHANGED <<jobs, global_subscribers, chans>>
           ELSE LET p == Publish([jobs EXCEPT ![job_id].job.status = RUNNING],
                                 global_subscribers, chans, job_id)
                IN /\ jobs' = p.jobs
                   /\ global_subscribers' = p.global_subscribers
                   /\ chans' = p.chans
                   /\ workers' = [workers EXCEPT ![w] =
                                     [pc |-> "exec", job_id |-> job_id, idx |-> 0,
                                      exc |-> NoExc]]
                   /\ UNCHANGED unfinished
    /\ last' = NoCall
    /\ UNCHANGED <<started, files, track_log, resolved, env, ncancel, stores>>

\* _execute_job up to the await of resolve (service.py 224-229)
ExecuteJob(w) ==
    /\ workers[w].pc = "exec"
    /\ IF jobs[workers[w].job_id].job.store \notin store_providers
       THEN workers' = [workers EXCEPT ![w].pc = "finish", ![w].exc = ErrStoreUnavailable]
       ELSE workers' = [workers EXCEPT ![w].pc = "resolve"]
    /\ last' = NoCall
    /\ UNCHANGED <<started, jobs, queue, unfinished, global_subscribers, chans, files,
                   track_log, resolved, env, ncancel, stores>>

\* The assignments after a successful resolve (service.py 234-236).
set_resolved(state, src) ==
    [state EXCEPT !.job.total_tracks = Len(src.tracks),
                  !.job.message = IF src.name # None THEN src.name ELSE src.source_type,
                  !.job.collection_name = src.name]

no_tracks_unchecked(tracks) == FALSE

\* service.py 231: if not tracks
no_tracks(tracks) == tracks = << >>

\* A collection of env.burst tracks, none of which carries an ISRC.
BurstSource ==
    [name |-> "Mix", source_type |-> "playlist",
     tracks |-> [i \in 1..env.burst |-> [isrc |-> FALSE, dest |-> 1]]]

\* What resolve can return in this run.
Sources ==
    IF env.burst > 0 THEN {BurstSource}
    ELSE {src \in ResolvedSources : Len(src.tracks) <= env.tracks}

\* resolve returns or raises; _execute_job up to the track loop (229-240)
ResolveReturn(w) ==
    /\ ~Busy
    /\ env.resolves
    /\ workers[w].pc = "resolve"
    /\ LET j == workers[w].job_id IN
        \/ /\ resolved' = [resolved EXCEPT ![j] = ResolveFailed]
           /\ workers' = [workers EXCEPT ![w].pc = "finish", ![w].exc = ErrResolve]
           /\ UNCHANGED <<jobs, global_subscribers, chans>>
        \/ \E src \in Sources :
            /\ resolved' = [resolved EXCEPT ![j] = Resolved(src)]
            /\ IF no_tracks(src.tracks)
               THEN /\ workers' = [workers EXCEPT ![w].pc = "finish",
                                                  ![w].exc = ErrEmptyTracks]
                    /\ UNCHANGED <<jobs, global_subscribers, chans>>
               ELSE LET p == Publish([jobs EXCEPT ![j] = set_resolved(@, src)],
                                     global_subscribers, chans, j)
                    IN /\ jobs' = p.jobs
                       /\ global_subscribers' = p.global_subscribers
                       /\ chans' = p.chans
                       /\ workers' = [workers EXCEPT ![w].pc = "loop", ![w].idx = 1]
    /\ last' = NoCall
    /\ UNCHANGED <<started, queue, unfinished, files, track_log, env, ncancel, stores>>

track_without_isrc_double(state) ==
    [state EXCEPT !.job.failed_tracks = @ + 1, !.job.completed_tracks = @ + 1]

track_without_isrc_uncounted(state) == state

\* service.py 245-247
track_without_isrc(state) == [state EXCEPT !.job.failed_tracks = @ + 1]

track_exists_stale(state) == [state EXCEPT !.job.completed_tracks = @ + 1]

\* service.py 254-256
track_exists(state) ==
    [state EXCEPT !.job.completed_tracks = @ + 1,
                  !.job.progress = clamp_progress(state.job.completed_tracks + 1,
                                                  state.job.total_tracks)]

exists_unchecked(final_path) == FALSE

\* service.py 254: final_path.exists()
exists(final_path) == final_path \in files

\* One pass of the track loop up to the await of download_track (242-263);
\* the loop running out of tracks returns from _execute_job.
TrackStep(w) ==
    /\ workers[w].pc = "loop"
    /\ LET j == workers[w].job_id
           i == workers[w].idx
           tracks == resolved[j].tracks
       IN
        IF i > Len(tracks)
        THEN /\ workers' = [workers EXCEPT ![w].pc = "finish", ![w].exc = NoExc]
             /\ UNCHANGED <<jobs, global_subscribers, chans, track_log, stores>>
        ELSE IF jobs[j].cancel_requested
        THEN /\ workers' = [workers EXCEPT ![w].pc = "finish", ![w].exc = JobCancelled]
             /\ UNCHANGED <<jobs, global_subscribers, chans, track_log, stores>>
        ELSE IF ~tracks[i].isrc
        THEN LET p == Publish([jobs EXCEPT ![j] = track_without_isrc(@)],
                              global_subscribers, chans, j)
             IN /\ jobs' = p.jobs
                /\ global_subscribers' = p.global_subscribers
                /\ chans' = p.chans
                /\ workers' = [workers EXCEPT ![w].idx = i + 1]
                /\ track_log' = [track_log EXCEPT ![j] = Append(@, "noisrc")]
                /\ UNCHANGED stores
        ELSE IF ~(jobs[j].job.path_template \subseteq ContextKeys)
        THEN /\ workers' = [workers EXCEPT ![w].pc = "finish", ![w].exc = ErrTemplate]
             /\ UNCHANGED <<jobs, global_subscribers, chans, track_log, stores>>
        ELSE IF exists(tracks[i].dest)
        THEN LET p == Publish([jobs EXCEPT ![j] = track_exists(@)],
                              global_subscribers, chans, j)
             IN /\ jobs' = p.jobs
                /\ global_subscribers' = p.global_subscribers
                /\ chans' = p.chans
                /\ workers' = [workers EXCEPT ![w].idx = i + 1]
                /\ track_log' = [track_log EXCEPT ![j] = Append(@, "exists")]
                /\ UNCHANGED stores
        ELSE /\ workers' = [workers EXCEPT ![w].pc = "download"]
             /\ stores' = [stores EXCEPT ![jobs[j].job.store] = acquire(@, w)]
             /\ UNCHANGED <<jobs, global_subscribers, chans, track_log>>
    /\ last' = NoCall
    /\ UNCHANGED <<started, queue, unfinished, files, resolved, env, ncancel>>

download_succeeded_listed_again(state, relative_path) ==
    [state EXCEPT !.job.completed_tracks = @ + 1,
                  !.job.downloaded_files = Append(@, relative_path)]

\* service.py 269-275: the store returned a file
download_succeeded(state, relative_path) ==
    [state EXCEPT !.job.completed_tracks = @ + 1,
                  !.job.downloaded_files =
                      IF Contains(@, relative_path) THEN @ ELSE Append(@, relative_path)]

download_failed_uncounted(state) == state

\* service.py 278-279: the store raised an ordinary error
download_failed(state) == [state EXCEPT !.job.failed_tracks = @ + 1]

download_body_counts_cancel(state, outcome, final_path) ==
    IF outcome = "ok" THEN download_succeeded(state, final_path)
    ELSE download_failed(state)

\* The try block of the track loop with its except arms (service.py 262-279).
download_body(state, outcome, final_path) ==
    IF outcome = "ok" THEN download_succeeded(state, final_path)
    ELSE IF outcome = "err" THEN download_failed(state)
    ELSE state

\* What download_track can do: return a file, raise an error, or, once the
\* is_cancelled predicate answers true, raise JobCancelled.
StoreOutcomes(state) ==
    {"ok", "err"} \cup (IF state.cancel_requested THEN {"cancelled"} ELSE {})

\* The downloader's thread ends and download_track, holding the lock,
\* returns or raises; the rest of the loop body (263-284)
DownloadReturn(w) ==
    /\ ~Busy
    /\ workers[w].pc = "download"
    /\ stores[jobs[workers[w].job_id].job.store].owner = w
    /\ stores' = [stores EXCEPT ![jobs[workers[w].job_id].job.store] = release(@)]
    /\ LET j == workers[w].job_id
           i == workers[w].idx
           track == resolved[j].tracks[i]
       IN \E outcome \in StoreOutcomes(jobs[j]) :
           LET after == download_body(jobs[j], outcome, track.dest)
               p == Publish([jobs EXCEPT ![j] = track_finally(after)],
                            global_subscribers, chans, j)
           IN /\ jobs' = p.jobs
              /\ global_subscribers' = p.global_subscribers
              /\ chans' = p.chans
              /\ files' = IF outcome = "ok" THEN files \cup {track.dest} ELSE files
              /\ track_log' = [track_log EXCEPT ![j] = Append(@, outcome)]
              /\ workers' = IF outcome = "cancelled"
                            THEN [workers EXCEPT ![w].pc = "finish", ![w].exc = JobCancelled]
                            ELSE [workers EXCEPT ![w].pc = "loop", ![w].idx = i + 1]
    /\ last' = NoCall
    /\ UNCHANGED <<started, queue, unfinished, resolved, env, ncancel>>

finish_job_forgets_error(state, exc) ==
    IF exc = JobCancelled
    THEN [state EXCEPT !.job.status = CANCELLED, !.job.message = MsgCancelled,
                       !.job.finished_at = utcnow]
    ELSE IF exc # NoExc
    THEN [state EXCEPT !.job.status = FAILED, !.job.finished_at = utcnow]
    ELSE [state EXCEPT !.job.status = COMPLETED, !.job.finished_at = utcnow]

\* The except/else arms of _worker (service.py 203-216).
finish_job(state, exc) ==
    IF exc = JobCancelled
    THEN [state EXCEPT !.job.status = CANCELLED, !.job.message = MsgCancelled,
                       !.job.finished_at = utcnow]
    ELSE IF exc # NoExc
    THEN [state EXCEPT !.job.status = FAILED, !.job.error = exc, !.job.finished_at = utcnow]
    ELSE [state EXCEPT !.job.status = COMPLETED, !.job.finished_at = utcnow]

\* _worker after _execute_job: terminal status, notification, task_done
Finish(w) ==
    /\ workers[w].pc = "finish"
    /\ LET j == workers[w].job_id
           p == Publish([jobs EXCEPT ![j] = finish_job(@, workers[w].exc)],
                        global_subscribers, chans, j)
       IN /\ jobs' = p.jobs
          /\ global_subscribers' = p.global_subscribers
          /\ chans' = p.chans
    /\ unfinished' = unfinished - 1
    /\ workers' = [workers EXCEPT ![w] = AtGet(queue)]
    /\ last' = NoCall
    /\ UNCHANGED <<started, queue, files, track_log, resolved, env, ncancel, stores>>

\* A downloader call whose task was cancelled comes to its end in its
\* thread; nobody awaits its result.  What it wrote lies in the destination
\* directory under the downloader's own file name: moving it to the
\* destination (service.py 270-271) was the cancelled task's to do.  The
\* return touches nothing the event loop reads, so it is placed between the
\* loop's synchronous sections rather than inside one.
ThreadReturn ==
    /\ ~Busy
    /\ \E s \in DOMAIN stores :
        /\ stores[s].orphans > 0
        /\ stores' = [stores EXCEPT ![s].orphans = @ - 1]
    /\ last' = NoCall
    /\ UNCHANGED <<started, jobs, queue, unfinished, global_subscribers, chans,
                   workers, files, track_log, resolved, env, ncancel>>

Next ==
    \/ Start
    \/ Stop
    \/ SubmitJob
    \/ CancelJob
    \/ SubscribeJob
    \/ UnsubscribeJob
    \/ SubscribeGlobal
    \/ UnsubscribeGlobal
    \/ Get
    \/ \E w \in DOMAIN workers : WorkerGet(w)
    \/ \E w \in DOMAIN workers : ExecuteJob(w)
    \/ \E w \in DOMAIN workers : ResolveReturn(w)
    \/ \E w \in DOMAIN workers : TrackStep(w)
    \/ \E w \in DOMAIN workers : DownloadReturn(w)
    \/ \E w \in DOMAIN workers : Finish(w)
    \/ ThreadReturn

Spec == Init /\ [][Next]_vars

\* The same service in the runs of the other profiles.
SpecOverflow == InitIn(OverflowProfiles) /\ [][Next]_vars
SpecRegistry == InitIn(RegistryProfiles) /\ [][Next]_vars
SpecPool == InitIn(PoolProfiles) /\ [][Next]_vars
SpecCancel == InitIn(CancelProfiles) /\ [][Next]_vars

\* The download directory is a volume its owner also works in: a file the
\* service has placed there may be gone later (get_job_files skips the
\* entries of downloaded_files that no longer exist, service.py 331).  Its
\* owner is another process, which does not wait for the event loop.
RemoveFile ==
    /\ \E f \in files : files' = files \ {f}
    /\ last' = NoCall
    /\ UNCHANGED <<started, jobs, queue, unfinished, global_subscribers, chans,
                   workers, track_log, resolved, env, ncancel, stores>>

\* A run of one job with longer sources and a subscriber, in which files
\* disappear from the download directory while the service works.
FileProfiles == {Profile(1, MaxTracks, 1, 1, DefaultWorkerConcurrency)}
NextFiles == Next \/ RemoveFile
SpecFiles == InitIn(FileProfiles) /\ [][NextFiles]_vars

\* The steps of worker w: its task runs when the event loop schedules it,
\* and the calls it awaits come back.
WorkerNext(w) ==
    /\ w \in DOMAIN workers
    /\ \/ WorkerGet(w)
       \/ ExecuteJob(w)
       \/ ResolveReturn(w)
       \/ TrackStep(w)
       \/ DownloadReturn(w)
       \/ Finish(w)

\* Runs in which the service, once started, is not stopped: several jobs
\* for a pool of workers, and one job of up to two tracks with a listener.
LiveProfiles ==
    {[Profile(MaxJobs, 1, 0, 1, MaxWorkers) EXCEPT !.stops = FALSE],
     [Profile(1, 2, 1, 1, DefaultWorkerConcurrency) EXCEPT !.stops = FALSE]}
NextLive ==
    \/ Start
    \/ SubmitJob
    \/ CancelJob
    \/ SubscribeJob
    \/ UnsubscribeJob
    \/ SubscribeGlobal
    \/ UnsubscribeGlobal
    \/ Get
    \/ \E w \in DOMAIN workers : WorkerNext(w)
\* The event loop runs every task that is ready, and every awaited call of
\* the playlist provider and of a store returns or raises in the end.
SpecLive ==
    /\ InitIn(LiveProfiles)
    /\ [][NextLive]_vars
    /\ \A w \in 1..MaxWorkers : WF_vars(WorkerNext(w))

\* Runs in which the service is stopped and started again while jobs wait:
\* several jobs for the default single worker, and one job with a listener.
RestartProfiles ==
    {Profile(MaxJobs, 1, 0, 0, DefaultWorkerConcurrency), BaseProfile}
\* The service with its event loop running every ready worker task.
SpecRestart ==
    /\ InitIn(RestartProfiles)
    /\ [][Next]_vars
    /\ \A w \in 1..MaxWorkers : WF_vars(WorkerNext(w))

\* ----------------------------------------------------- strings and paths
\* A str is the sequence of its characters.
Whitespace == {" ", "\t"}
\* utils.py 9: the class [<>:"/\\|?*]
INVALID_PATH_CHARS == {"<", ">", ":", "\"", "/", "\\", "|", "?", "*"}
Unknown == <<"U", "n", "k", "n", "o", "w", "n">>
Strs(chars, n) == UNION {[1..k -> chars] : k \in 0..n}

\* str.strip()
strip(s) ==
    LET keep == {i \in 1..Len(s) : s[i] \notin Whitespace} IN
    IF keep = {} THEN << >>
    ELSE SubSeq(s, CHOOSE i \in keep : \A k \in keep : i <= k,
                   CHOOSE i \in keep : \A k \in keep : i >= k)

replace_dots_kept(s) == s

\* clean.replace("..", "_"): occurrences are taken from the left and do not
\* overlap.
RECURSIVE replace_dots(_)
replace_dots(s) ==
    IF Len(s) < 2 THEN s
    ELSE IF s[1] = "." /\ s[2] = "." THEN <<"_">> \o replace_dots(SubSeq(s, 3, Len(s)))
    ELSE <<s[1]>> \o replace_dots(Tail(s))

\* MULTI_SPACES.sub(" ", clean): every maximal run of whitespace becomes
\* one space.
MULTI_SPACES_sub(s) ==
    LET F[i \in 0..Len(s)] ==
            IF i = 0 THEN << >>
            ELSE IF s[i] \notin Whitespace THEN Append(F[i - 1], s[i])
            ELSE IF i > 1 /\ s[i - 1] \in Whitespace THEN F[i - 1]
            ELSE Append(F[i - 1], " ")
    IN F[Len(s)]

\* utils.py 13-18
sanitize_component(value) ==
    LET subbed == [i \in 1..Len(value) |->
                      IF value[i] \in INVALID_PATH_CHARS THEN "_" ELSE value[i]]
        clean == replace_dots(subbed)
        out == strip(MULTI_SPACES_sub(clean))
    IN IF out = << >> THEN Unknown ELSE out

\* pathlib on POSIX.  A path is its root ("/" or none) and its parts below
\* the root; parsing splits at "/" and drops empty segments and "."
\* segments, and keeps ".." segments.
RECURSIVE split(_, _)
split(s, seg) ==
    IF s = << >> THEN (IF seg \in {<< >>, <<".">>} THEN << >> ELSE <<seg>>)
    ELSE IF s[1] = "/"
    THEN (IF seg \in {<< >>, <<".">>} THEN << >> ELSE <<seg>>) \o split(Tail(s), << >>)
    ELSE split(Tail(s), Append(seg, s[1]))

Path(s) == [root |-> s # << >> /\ s[1] = "/", parts |-> split(s, << >>)]
\* a / b
Join(a, b) == IF b.root THEN b ELSE [root |-> a.root, parts |-> a.parts \o b.parts]

\* -------------------------------------------------------------- templates
\* A template is the sequence of its characters, a replacement field such
\* as {track:02d} standing as one element.
\* The replacement fields templates use, each with the context key it names.
FieldKey ==
    ("{artist}" :> "artist") @@ ("{album}" :> "album") @@ ("{title}" :> "title") @@
    ("{track:02d}" :> "track") @@ ("{ext}" :> "ext") @@ ("{playlist}" :> "playlist") @@
    ("{year}" :> "year")
Fields == DOMAIN FieldKey

\* app_config.py 13-14
DEFAULT_ARTIST_TEMPLATE ==
    <<"{artist}", "/", "{album}", "/", "{track:02d}", " ", "-", " ", "{title}", ".", "{ext}">>
DEFAULT_SINGLE_TEMPLATE ==
    <<"{playlist}", "/", "{track:02d}", " ", "-", " ", "{artist}", " ", "-", " ", "{title}",
      ".", "{ext}">>

\* DownloadMode
SINGLE_FOLDER == "single_folder"
BY_ARTIST == "by_artist"

\* format(n, "02d") for a track number below 100
format_02d(n) ==
    LET digits == <<"0", "1", "2", "3", "4", "5", "6", "7", "8", "9">>
    IN <<digits[(n \div 10) + 1], digits[(n % 10) + 1]>>

format_lenient(template, context) ==
    LET piece(i) ==
            IF template[i] \notin Fields THEN <<template[i]>>
            ELSE IF FieldKey[template[i]] \notin DOMAIN context THEN << >>
            ELSE IF template[i] = "{track:02d}" THEN format_02d(context["track"])
            ELSE context[FieldKey[template[i]]]
        F[i \in 0..Len(template)] == IF i = 0 THEN << >> ELSE F[i - 1] \o piece(i)
    IN [exc |-> NoExc, text |-> F[Len(template)]]

\* template.format(**context): a field whose key the context lacks raises
\* KeyError; {track:02d} pads the number, every other field takes the str.
format(template, context) ==
    IF \E i \in 1..Len(template) :
          template[i] \in Fields /\ FieldKey[template[i]] \notin DOMAIN context
    THEN [exc |-> ErrTemplate, text |-> << >>]
    ELSE LET piece(i) ==
                 IF template[i] \notin Fields THEN <<template[i]>>
                 ELSE IF template[i] = "{track:02d}" THEN format_02d(context["track"])
                 ELSE context[FieldKey[template[i]]]
             F[i \in 0..Len(template)] == IF i = 0 THEN << >> ELSE F[i - 1] \o piece(i)
         IN [exc |-> NoExc, text |-> F[Len(template)]]

\* utils.py 32-33: an absolute candidate loses its root
candidate_relative(candidate) ==
    IF candidate.root THEN [root |-> FALSE, parts |-> candidate.parts] ELSE candidate

\* utils.py 21-34; the int of the context is its track number
render_path(template, context) ==
    LET safe_context == [key \in DOMAIN context |->
                            IF key = "track" THEN context[key]
                            ELSE sanitize_component(context[key])]
        rendered == format(template, safe_context)
    IN IF rendered.exc # NoExc
       THEN [exc |-> rendered.exc, path |-> Path(<< >>)]
       ELSE [exc |-> NoExc, path |-> candidate_relative(Path(rendered.text))]

\* TrackMetadata.as_context (models.py 53-62); no track number is 0
as_context(track) ==
    [key \in {"artist", "album", "title", "track", "ext"} |->
        CASE key = "artist" -> track.artists
          [] key = "album" -> track.album
          [] key = "title" -> track.title
          [] key = "track" -> track.track_number
          [] key = "ext" -> <<"f", "l", "a", "c">>]

\* "{playlist" in template
references_playlist(template) == \E i \in 1..Len(template) : template[i] = "{playlist}"

\* x or y, the empty str standing for None as well
Or(x, y) == IF x # << >> THEN x ELSE y

\* storage.py 27-36
build_track_path(download_dir, default_template, job, track) ==
    LET template == Or(job.path_template, default_template)
        context == as_context(track)
        playlist_name == Or(job.collection_name, Or(job.message, <<"P", "l", "a", "y", "l", "i", "s", "t">>))
        with_playlist ==
            IF references_playlist(template) \/ job.mode = SINGLE_FOLDER
            THEN [key \in DOMAIN context \cup {"playlist"} |->
                     IF key = "playlist" THEN playlist_name ELSE context[key]]
            ELSE context
        relative == render_path(template, with_playlist)
    IN IF relative.exc # NoExc THEN relative
       ELSE [exc |-> NoExc,
             path |-> Join(download_dir,
                           IF playlist_name # << >> /\ ~references_playlist(template)
                           THEN Join(Path(sanitize_component(playlist_name)), relative.path)
                           ELSE relative.path)]

active_template_by_artist(download) == download.by_artist_template

\* DownloadSettings.active_template (app_config.py 113-119)
active_template(download) ==
    IF download.mode = SINGLE_FOLDER THEN download.single_folder_template
    ELSE download.by_artist_template

\* service.py 367-376; no template in the request is the empty str
_resolve_template(request, settings, default_template) ==
    IF request.path_template # << >> /\ strip(request.path_template) # << >>
    THEN [template |-> strip(request.path_template), mode |-> settings.download.mode]
    ELSE LET template == Or(active_template(settings.download), default_template)
         IN [template |-> Or(template, default_template), mode |-> settings.download.mode]

\* ------------------------------------------------ calls of the path code
MaxLen == 4
MaxTokens == 4

\* The strs a track, a playlist or a request can carry: an ordinary
\* character, a path separator, a dot, two kinds of whitespace.
Values == Strs({"a", "/", ".", " ", "\t"}, MaxLen)
\* Templates: the two the application ships, and every short one over
\* separators, dots, ordinary characters and three fields, one of which no
\* context has.
Templates ==
    {DEFAULT_ARTIST_TEMPLATE, DEFAULT_SINGLE_TEMPLATE}
    \cup Strs({"/", ".", "x", "{artist}", "{playlist}", "{year}"}, MaxTokens)
\* Settings.download_dir, "/d"
download_dir == Path(<<"/", "d">>)
\* Settings.default_template
default_template == DEFAULT_ARTIST_TEMPLATE

TrackMetadata ==
    [artists : {<<"a">>, <<".">>, <<"a", "/", "b">>}, album : {<<"b">>},
     title : {<<"t">>}, track_number : {1}]
    \cup {[artists |-> <<"a">>, album |-> <<" ">>, title |-> <<"t", " ", " ", "t">>,
           track_number |-> 12]}
\* What resolve names a source (no name: the empty str) and its type.
SourceNames ==
    [name : {<<"M">>, <<".">>, <<"a", "/", "b">>}, source_type : {<<"p">>}]
    \cup [name : {<< >>}, source_type : {<< >>, <<"t">>}]
DownloadModes == {SINGLE_FOLDER, BY_ARTIST}
\* The fields of a running job that build_track_path reads: what submit_job
\* (service.py 129-131) and _execute_job (235-236) have set.
PathJobs ==
    {[path_template |-> template, mode |-> mode,
      message |-> Or(src.name, src.source_type), collection_name |-> src.name] :
        template \in Templates, mode \in DownloadModes, src \in SourceNames}
DownloadSettings ==
    [mode : DownloadModes,
     by_artist_template : {<< >>, <<" ">>, DEFAULT_ARTIST_TEMPLATE},
     single_folder_template : {<< >>, DEFAULT_SINGLE_TEMPLATE}]

\* A call of the path code about to be made, and the call once it returned.
Pending(op, args) == [op |-> op, id |-> args, result |-> << >>, done |-> FALSE]
Returned(call, result) == [call EXCEPT !.result = result, !.done = TRUE]

\* The calls within the bounds.
IsCall(call) ==
    \/ \E value \in Values : call = Pending("sanitize_component", value)
    \/ \E path_template \in Strs({" ", "x"}, 3), download \in DownloadSettings :
          call = Pending("_resolve_template",
                         [request |-> [path_template |-> path_template],
                          settings |-> [download |-> download]])
    \/ \E template \in Templates, track \in TrackMetadata :
          call = Pending("render_path",
                         [template |-> template, context |-> as_context(track)])
    \/ \E job \in PathJobs, track \in TrackMetadata :
          call = Pending("build_track_path", [job |-> job, track |-> track])

\* The service as __init__ left it, and one call of the path code to make.
InitPaths ==
    /\ env = BaseProfile
    /\ started = FALSE
    /\ jobs = << >>
    /\ queue = << >>
    /\ unfinished = 0
    /\ global_subscribers = << >>
    /\ chans = [q \in ChanIds |-> NoChan]
    /\ workers = << >>
    /\ files = {}
    /\ track_log = [j \in JobIds |-> << >>]
    /\ resolved = [j \in JobIds |-> NotResolved]
    /\ ncancel = 0
    /\ stores = [s \in store_providers |-> Unlocked]
    /\ IsCall(last)

Sanitize ==
    /\ last.op = "sanitize_component" /\ ~last.done
    /\ last' = Returned(last, sanitize_component(last.id))
    /\ UNCHANGED <<started, jobs, queue, unfinished, global_subscribers, chans,
                   workers, files, track_log, resolved, env, ncancel, stores>>

ResolveTemplate ==
    /\ last.op = "_resolve_template" /\ ~last.done
    /\ last' = Returned(last, _resolve_template(last.id.request, last.id.settings,
                                                default_template))
    /\ UNCHANGED <<started, jobs, queue, unfinished, global_subscribers, chans,
                   workers, files, track_log, resolved, env, ncancel, stores>>

RenderPath ==
    /\ last.op = "render_path" /\ ~last.done
    /\ last' = Returned(last, render_path(last.id.template, last.id.context))
    /\ UNCHANGED <<started, jobs, queue, unfinished, global_subscribers, chans,
                   workers, files, track_log, resolved, env, ncancel, stores>>

BuildTrackPath ==
    /\ last.op = "build_track_path" /\ ~last.done
    /\ last' = Returned(last, build_track_path(download_dir, default_template,
                                               last.id.job, last.id.track))
    /\ UNCHANGED <<started, jobs, queue, unfinished, global_subscribers, chans,
                   workers, files, track_log, resolved, env, ncancel, stores>>

NextPaths == Sanitize \/ ResolveTemplate \/ RenderPath \/ BuildTrackPath

\* The path code called on every input within the bounds.
SpecPaths == InitPaths /\ [][NextPaths]_vars

\* ================================================================== claims
JobOf(j) == jobs[j].job
Count(log, kinds) == Cardinality({i \in 1..Len(log) : log[i] \in kinds})
Last(seq) == seq[Len(seq)]
Known(snap) ==
    /\ snap.completed_tracks + snap.failed_tracks <= snap.total_tracks
    /\ RatioLeq(Zero, snap.progress)
    /\ RatioLeq(snap.progress, One)

\* C1: in every reachable state, every job and every snapshot waiting in a
\* subscriber queue has completed_tracks + failed_tracks <= total_tracks and
\* 0 <= progress <= 1.
C1_CountersAndProgressBounded ==
    /\ \A j \in DOMAIN jobs : Known(snapshot(JobOf(j)))
    /\ \A q \in ChanIds : \A i \in 1..Len(chans[q].items) : Known(chans[q].items[i])

\* A job that has both completed and failed tracks, all accounted for, with a
\* progress strictly between 0 and 1.
C1_Witness ==
    \E j \in DOMAIN jobs :
        /\ JobOf(j).completed_tracks >= 1
        /\ JobOf(j).failed_tracks >= 1
        /\ JobOf(j).completed_tracks + JobOf(j).failed_tracks = JobOf(j).total_tracks
        /\ ~RatioLeq(JobOf(j).progress, Zero)
        /\ ~RatioLeq(One, JobOf(j).progress)

StatusEdges ==
    {<<PENDING, RUNNING>>, <<RUNNING, COMPLETED>>, <<RUNNING, FAILED>>,
     <<RUNNING, CANCELLED>>, <<FAILED, RUNNING>>}

\* C2: a new job starts pending, and every change of a job's status is one of
\* pending->running, running->completed, running->failed, running->cancelled,
\* failed->running.
C2_StatusEdges ==
    [][/\ \A j \in DOMAIN jobs' \ DOMAIN jobs : jobs'[j].job.status = PENDING
       /\ \A j \in DOMAIN jobs :
            \/ jobs'[j].job.status = JobOf(j).status
            \/ <<JobOf(j).status, jobs'[j].job.status>> \in StatusEdges]_vars

\* One job has ended cancelled and another has ended failed.
C2_Witness ==
    \E j, k \in DOMAIN jobs : JobOf(j).status = CANCELLED /\ JobOf(k).status = FAILED

\* C3: once a job is completed, failed or cancelled, no step changes its
\* status or its finished_at.
C3_TerminalFieldsFrozen ==
    [][\A j \in DOMAIN jobs :
          finished(JobOf(j).status) =>
              /\ jobs'[j].job.status = JobOf(j).status
              /\ jobs'[j].job.finished_at = JobOf(j).finished_at]_vars

\* cancel_job has just been called on a job that had finished, after a later
\* job had finished too and the service had been stopped.
C3_Witness ==
    /\ last.op = "cancel_job"
    /\ last.result = "true"
    /\ finished(JobOf(last.id).status)
    /\ JobOf(last.id).finished_at # NoTime
    /\ \E k \in DOMAIN jobs : finished(JobOf(k).status)
                              /\ JobOf(k).finished_at > JobOf(last.id).finished_at
    /\ ~started

Failures == {"err", "noisrc"}
Successes == {"ok", "exists"}
WorkerOn(w, j) == w \in DOMAIN workers /\ workers[w].job_id = j

\* C4: a store error on a track adds one to failed_tracks, leaves
\* completed_tracks alone and lets the job go on running with the next track;
\* a finished job that had store errors and no cancellation request is
\* completed; and a completed job has handled every track, failed_tracks
\* being the number of tracks that failed and completed_tracks the number
\* that succeeded.
C4_PartialFailureIsolation ==
    /\ [](\A j \in DOMAIN jobs :
            /\ JobOf(j).status = COMPLETED =>
                 /\ Len(track_log[j]) = JobOf(j).total_tracks
                 /\ JobOf(j).failed_tracks = Count(track_log[j], Failures)
                 /\ JobOf(j).completed_tracks = Count(track_log[j], Successes)
            /\ (/\ finished(JobOf(j).status)
                /\ ~jobs[j].cancel_requested
                /\ Count(track_log[j], {"err"}) > 0) => JobOf(j).status = COMPLETED)
    /\ [][\A j \in DOMAIN jobs :
            track_log'[j] = Append(track_log[j], "err") =>
                /\ jobs'[j].job.failed_tracks = JobOf(j).failed_tracks + 1
                /\ jobs'[j].job.completed_tracks = JobOf(j).completed_tracks
                /\ jobs'[j].job.status = RUNNING
                /\ \E w \in DOMAIN workers :
                     /\ WorkerOn(w, j)
                     /\ workers'[w].pc = "loop"
                     /\ workers'[w].idx = workers[w].idx + 1]_vars

\* Three tracks, the store failed on the second only, nobody cancelled: the
\* job is completed with 2 completed and 1 failed.
C4_Witness ==
    \E j \in DOMAIN jobs :
        /\ track_log[j] = <<"ok", "err", "ok">>
        /\ ~jobs[j].cancel_requested
        /\ JobOf(j).status = COMPLETED
        /\ JobOf(j).completed_tracks = 2
        /\ JobOf(j).failed_tracks = 1

Counters(job) == <<job.completed_tracks, job.failed_tracks, job.total_tracks>>

\* C5: while a download is in flight the job's counters do not move; when
\* the store answers a cancellation request by raising JobCancelled the
\* counters stay as they were and the worker goes on to end the job as
\* cancelled with error unset; a cancelled job counts the cancelled track
\* neither as completed nor as failed.
C5_CancelInFlightHonoured ==
    /\ [](\A j \in DOMAIN jobs :
            JobOf(j).status = CANCELLED =>
                /\ JobOf(j).error = None
                /\ jobs[j].cancel_requested
                /\ JobOf(j).completed_tracks = Count(track_log[j], Successes)
                /\ JobOf(j).failed_tracks = Count(track_log[j], Failures))
    /\ [][\A w \in DOMAIN workers :
            LET j == workers[w].job_id IN
            /\ (workers[w].pc = "download" /\ w \in DOMAIN workers'
                /\ workers'[w].pc = "download") =>
                   Counters(jobs'[j].job) = Counters(JobOf(j))
            /\ (workers[w].pc = "download"
                /\ track_log'[j] = Append(track_log[j], "cancelled")) =>
                   /\ jobs[j].cancel_requested
                   /\ Counters(jobs'[j].job) = Counters(JobOf(j))
                   /\ jobs'[j].job.status = RUNNING
                   /\ workers'[w].pc = "finish"
                   /\ workers'[w].exc = JobCancelled
            /\ (workers[w].pc = "finish" /\ workers[w].exc = JobCancelled) =>
                   /\ jobs'[j].job.status = CANCELLED
                   /\ jobs'[j].job.error = None
                   /\ Counters(jobs'[j].job) = Counters(JobOf(j))]_vars

\* A job cancelled during its second download, after the first track had
\* completed: cancelled, error unset, 1 completed, 0 failed.
C5_Witness ==
    \E j \in DOMAIN jobs :
        /\ track_log[j] = <<"ok", "cancelled">>
        /\ JobOf(j).status = CANCELLED
        /\ JobOf(j).error = None
        /\ JobOf(j).completed_tracks = 1
        /\ JobOf(j).failed_tracks = 0

\* C6: a job whose in-flight download returned (with a file or with an
\* ordinary error) after cancellation had been requested ends cancelled,
\* whatever the position of that track.
C6_CancelInFlightIgnored ==
    [][\A j \in DOMAIN jobs :
          (/\ JobOf(j).status = RUNNING
           /\ finished(jobs'[j].job.status)
           /\ jobs[j].cancel_requested
           /\ track_log[j] # << >>
           /\ Last(track_log[j]) \in {"ok", "err"}) =>
              jobs'[j].job.status = CANCELLED]_vars

EmptySource(j) == resolved[j].outcome = "ok" /\ resolved[j].tracks = << >>

\* C7: a job whose source resolved to zero tracks has total_tracks = 0 and no
\* track handled or handed to the store, and it is failed with the error
\* "track list is empty" (or its worker is on the way to record exactly that).
C7_EmptySourceFails ==
    \A j \in DOMAIN jobs :
        EmptySource(j) =>
            /\ JobOf(j).total_tracks = 0
            /\ track_log[j] = << >>
            /\ \/ /\ JobOf(j).status = FAILED
                  /\ JobOf(j).error = ErrEmptyTracks
                  /\ JobOf(j).error # None
               \/ /\ JobOf(j).status = RUNNING
                  /\ \E w \in DOMAIN workers :
                       /\ WorkerOn(w, j)
                       /\ workers[w].pc = "finish"
                       /\ workers[w].exc = ErrEmptyTracks

\* A job whose source had no tracks has ended failed.
C7_Witness ==
    \E j \in DOMAIN jobs :
        /\ EmptySource(j)
        /\ JobOf(j).status = FAILED
        /\ JobOf(j).error = ErrEmptyTracks
        /\ JobOf(j).finished_at # NoTime

\* C8: a worker that reaches a track whose destination exists counts it as
\* completed and moves to the next track without calling the store; a
\* finished job all of whose tracks were found on disk is completed with
\* completed_tracks = total_tracks unless it was cancelled on the way.
C8_ExistingFilesSkipped ==
    /\ [](\A j \in DOMAIN jobs :
            (/\ finished(JobOf(j).status)
             /\ track_log[j] # << >>
             /\ Count(track_log[j], {"exists"}) = Len(track_log[j])) =>
                \/ /\ JobOf(j).status = COMPLETED
                   /\ JobOf(j).completed_tracks = JobOf(j).total_tracks
                   /\ JobOf(j).failed_tracks = 0
                   /\ RatioEq(JobOf(j).progress, One)
                \/ /\ JobOf(j).status = CANCELLED
                   /\ JobOf(j).completed_tracks = Len(track_log[j]))
    /\ [][\A w \in DOMAIN workers :
            LET j == workers[w].job_id
                i == workers[w].idx
            IN (/\ workers[w].pc = "loop"
                /\ i <= Len(resolved[j].tracks)
                /\ ~jobs[j].cancel_requested
                /\ resolved[j].tracks[i].isrc
                /\ JobOf(j).path_template \subseteq ContextKeys
                /\ resolved[j].tracks[i].dest \in files) =>
                   /\ workers'[w].pc = "loop"
                   /\ workers'[w].idx = i + 1
                   /\ track_log'[j] = Append(track_log[j], "exists")
                   /\ jobs'[j].job.completed_tracks = JobOf(j).completed_tracks + 1
                   /\ jobs'[j].job.failed_tracks = JobOf(j).failed_tracks
                   /\ files' = files]_vars

\* A job of two tracks, both already on disk: completed, 2 of 2, the store
\* never called.
C8_Witness ==
    \E j \in DOMAIN jobs :
        /\ track_log[j] = <<"exists", "exists">>
        /\ JobOf(j).status = COMPLETED
        /\ JobOf(j).completed_tracks = 2
        /\ JobOf(j).total_tracks = 2
        /\ JobOf(j).downloaded_files = << >>

Listening == {q \in ChanIds : Listed(q, jobs, global_subscribers)}

\* C9: no job is added and nothing is enqueued while the service is not
\* started; submit_job then answers "service not started" and leaves the
\* registry, the queue, the subscriber lists and every subscriber queue as
\* they were; submit_job answers that only when the service is not started.
C9_SubmitRejectedWhenStopped ==
    [][/\ ~started => (Len(jobs') = Len(jobs) /\ queue' = queue)
       /\ last'.op = "submit_job" =>
            /\ (~started <=> last'.result = ErrNotStarted)
            /\ last'.result = ErrNotStarted =>
                 UNCHANGED <<started, jobs, queue, unfinished, global_subscribers,
                             chans, workers>>]_vars

\* submit_job has just been refused after a stop, with a job in the registry
\* and a subscriber listening.
C9_Witness ==
    /\ last = Call("submit_job", 0, ErrNotStarted)
    /\ ~started
    /\ Len(jobs) >= 1
    /\ Listening # {}

HasRoom(q) == Len(chans[q].items) < chans[q].maxsize
Delivered(q, snap) == chans'[q].items = Append(chans[q].items, snap)

\* C10: cancel_job on an unknown id answers false and changes nothing; on a
\* known id it answers true, sets the cancellation flag and the message, and
\* puts the new snapshot on every per-job and global subscriber queue that
\* has room; a
\* cancellation flag that is set stays set.
C10_CancelJob ==
    [][/\ \A j \in DOMAIN jobs : jobs[j].cancel_requested => jobs'[j].cancel_requested
       /\ last'.op = "cancel_job" =>
            /\ (last'.id \in DOMAIN jobs <=> last'.result = "true")
            /\ last'.result = "false" =>
                 UNCHANGED <<started, jobs, queue, unfinished, global_subscribers,
                             chans, workers, files, ncancel>>
            /\ last'.result = "true" =>
                 LET j == last'.id
                     snap == snapshot(jobs'[j].job) IN
                 /\ jobs'[j].cancel_requested
                 /\ snap.message = MsgCancelRequested
                 /\ \A i \in 1..Len(jobs[j].subscribers) :
                        HasRoom(jobs[j].subscribers[i]) =>
                            Delivered(jobs[j].subscribers[i], snap)
                 /\ \A i \in 1..Len(global_subscribers) :
                        HasRoom(global_subscribers[i]) =>
                            Delivered(global_subscribers[i], snap)]_vars

\* cancel_job has just answered true on a job with a per-job subscriber and
\* a global subscriber, and both hold the snapshot of the request.
C10_Witness ==
    /\ last.op = "cancel_job"
    /\ last.result = "true"
    /\ jobs[last.id].cancel_requested
    /\ jobs[last.id].subscribers # << >>
    /\ global_subscribers # << >>
    /\ \A q \in Listening :
          /\ chans[q].items # << >>
          /\ Last(chans[q].items) = snapshot(JobOf(last.id))
          /\ Last(chans[q].items).message = MsgCancelRequested

Subscribers(j) == jobs[j].subscribers \o global_subscribers

ListenersOf(j) ==
    (IF j \in DOMAIN jobs THEN jobs[j].subscribers ELSE << >>) \o global_subscribers
\* In this step queue q was taken off the lists, untouched and still held by
\* its client.
Dropped(q) ==
    /\ Listed(q, jobs, global_subscribers)
    /\ ~Listed(q, jobs', global_subscribers')
    /\ chans'[q] = chans[q]
\* In this step queue q was handed the new snapshot of job j and stays listed.
Received(q, j) ==
    /\ Delivered(q, snapshot(jobs'[j].job))
    /\ Listed(q, jobs', global_subscribers')
\* Job j is notified in this step: it is new, it has changed, cancel_job was
\* called on it, or one of its listeners was served or dropped.
Notifies(j) ==
    \/ j \notin DOMAIN jobs
    \/ j \in DOMAIN jobs /\ jobs'[j].job # JobOf(j)
    \/ last'.op = "cancel_job" /\ last'.id = j
    \/ \E i \in 1..Len(ListenersOf(j)) :
          Dropped(ListenersOf(j)[i]) \/ Received(ListenersOf(j)[i], j)

\* C12: whenever a job is notified, every listed queue with room receives
\* the new snapshot and stays listed, and every listed queue that is full is
\* taken off its list with its contents untouched; only a full queue is ever
\* dropped; and the producer completes its own step: submit_job registers
\* and enqueues the job and answers ok, cancel_job sets the flag and answers
\* true, and the worker moves on.
C12_OverflowDropsSubscriber ==
    [][/\ \A j \in DOMAIN jobs' :
            Notifies(j) =>
                \A i \in 1..Len(ListenersOf(j)) :
                    LET q == ListenersOf(j)[i] IN
                    IF HasRoom(q) THEN Received(q, j) ELSE Dropped(q)
       /\ \A q \in ChanIds : Dropped(q) => ~HasRoom(q)
       /\ (\E q \in ChanIds : Dropped(q)) =>
            /\ last'.op = "submit_job" =>
                 /\ last'.result = "ok"
                 /\ Len(jobs') = Len(jobs) + 1
                 /\ queue' = Append(queue, Len(jobs'))
            /\ last'.op = "cancel_job" =>
                 /\ last'.result = "true"
                 /\ jobs'[last'.id].cancel_requested
            /\ last'.op = "none" => (started' => workers' # workers)]_vars

\* A per-job queue has been dropped full in the middle of the track loop,
\* while a global queue went on receiving and the worker went on working.
C12_Witness ==
    \E q1, q2 \in ChanIds :
        /\ chans[q1].maxsize = JobQueueMaxsize
        /\ Len(chans[q1].items) = JobQueueMaxsize
        /\ ~Listed(q1, jobs, global_subscribers)
        /\ Contains(global_subscribers, q2)
        /\ Len(chans[q2].items) > JobQueueMaxsize
        /\ Last(chans[q2].items) = snapshot(JobOf(1))
        /\ \E w \in DOMAIN workers : workers[w].pc = "loop" /\ workers[w].job_id = 1

\* In this step subscribe_job(j) created queue q.
SubscribedJob(j, q) ==
    /\ chans[q] = NoChan
    /\ jobs'[j].subscribers = Append(jobs[j].subscribers, q)

\* C13: the queue subscribe_job returns for a known job is a queue of
\* capacity 100 that holds exactly one item, the snapshot of the job as it
\* is at that moment, whatever the status of the job; the call changes
\* nothing of the job itself.
C13_SubscribeJobSeeded ==
    [][\A j \in DOMAIN jobs : \A q \in ChanIds :
          SubscribedJob(j, q) =>
              /\ chans'[q].maxsize = JobQueueMaxsize
              /\ chans'[q].items = <<snapshot(JobOf(j))>>
              /\ Head(chans'[q].items).status = JobOf(j).status
              /\ jobs'[j].job = JobOf(j)
              /\ jobs'[j].cancel_requested = jobs[j].cancel_requested]_vars

\* Someone has subscribed to a job that had already finished while nobody
\* listened, and holds its final snapshot.
C13_Witness ==
    \E j \in DOMAIN jobs : \E q \in ChanIds :
        /\ finished(JobOf(j).status)
        /\ jobs[j].subscribers = <<q>>
        /\ global_subscribers = << >>
        /\ chans[q].items = <<snapshot(JobOf(j))>>
        /\ \A r \in ChanIds \ {q} : chans[r] = NoChan

\* In this step subscribe_global created queue q.
SubscribedGlobal(q) ==
    /\ chans[q] = NoChan
    /\ global_subscribers' = Append(global_subscribers, q)

\* C14: subscribe_global succeeds whatever the number of jobs in the
\* registry, and the queue it returns holds exactly one snapshot per known
\* job, the current one, in the order of the registry.
C14_SubscribeGlobalSeedsAll ==
    [][\A q \in ChanIds :
          SubscribedGlobal(q) =>
              /\ last'.result = "ok"
              /\ Len(chans'[q].items) = Len(jobs)
              /\ \A j \in DOMAIN jobs : chans'[q].items[j] = snapshot(JobOf(j))]_vars

\* How far a job has come: pending, then running, then finished.
Rank(status) == IF status = PENDING THEN 0 ELSE IF status = RUNNING THEN 1 ELSE 2
\* Snapshot a shows a state of its job that is not later than the one b shows.
NotLater(a, b) ==
    /\ Rank(a.status) <= Rank(b.status)
    /\ Rank(a.status) = 2 => (a.status = b.status /\ a.finished_at = b.finished_at)
    /\ a.finished_at # NoTime => b.finished_at = a.finished_at
    /\ a.total_tracks <= b.total_tracks
    /\ a.completed_tracks <= b.completed_tracks
    /\ a.failed_tracks <= b.failed_tracks
    /\ RatioLeq(a.progress, b.progress)
    /\ Len(a.downloaded_files) <= Len(b.downloaded_files)
    /\ a.error # None => b.error = a.error

\* C15: in every subscriber queue, per-job or global, the snapshots of one
\* job stand in the order in which the job went through those states: no
\* snapshot is followed by a snapshot of an earlier state of the same job,
\* and none shows a state later than the one the job is in now.
C15_SnapshotsInOrder ==
    \A q \in ChanIds :
        LET items == chans[q].items IN
        /\ \A i, k \in 1..Len(items) :
              (i < k /\ items[i].id = items[k].id) => NotLater(items[i], items[k])
        /\ \A i \in 1..Len(items) :
              /\ items[i].id \in DOMAIN jobs
              /\ NotLater(items[i], snapshot(JobOf(items[i].id)))

\* A queue holds the whole life of a job, from pending to completed with a
\* track downloaded, in that order.
C15_Witness ==
    \E q \in ChanIds :
        LET items == chans[q].items IN
        /\ Len(items) >= 4
        /\ items[1].status = PENDING
        /\ items[2].status = RUNNING
        /\ items[Len(items) - 1].status = RUNNING
        /\ items[Len(items) - 1].completed_tracks = 1
        /\ items[Len(items)].status = COMPLETED
        /\ \A i \in 1..Len(items) : items[i].id = 1

\* The queues listed for job j after this step.
ListenersAfter(j) == jobs'[j].subscribers \o global_subscribers'
\* The snapshots of job j that queue q holds.
ItemsOf(q, j) == {i \in 1..Len(chans[q].items) : chans[q].items[i].id = j}

\* C16: every step that gives a job a status (pending at submission,
\* running at pickup, completed, failed or cancelled at the end) puts a
\* snapshot carrying that status at the tail of every queue that is listed
\* for the job after the step, so that it is there before the status can
\* change again; and in every state the latest snapshot of a job in a queue
\* listed for it carries the job's current status.
C16_EveryStatusObservable ==
    /\ [](\A j \in DOMAIN jobs : \A i \in 1..Len(Subscribers(j)) :
            LET q == Subscribers(j)[i] IN
            ItemsOf(q, j) # {} =>
                chans[q].items[CHOOSE m \in ItemsOf(q, j) :
                                   \A n \in ItemsOf(q, j) : n <= m].status
                    = JobOf(j).status)
    /\ [][\A j \in DOMAIN jobs' :
            (j \notin DOMAIN jobs \/ jobs'[j].job.status # jobs[j].job.status) =>
                \A i \in 1..Len(ListenersAfter(j)) :
                    LET q == ListenersAfter(j)[i] IN
                    /\ chans'[q].items # << >>
                    /\ Last(chans'[q].items) = snapshot(jobs'[j].job)
                    /\ Len(chans'[q].items) = Len(chans[q].items) + 1]_vars

\* A listener unread since before the submission holds, in this order, a
\* pending, a running and a cancelled snapshot of the job.
C16_Witness ==
    \E q \in ChanIds :
        LET items == chans[q].items IN
        /\ Contains(global_subscribers, q)
        /\ Len(items) >= 3
        /\ items[1].status = PENDING
        /\ \E i \in 2..(Len(items) - 1) : items[i].status = RUNNING
        /\ Last(items).status = CANCELLED
        /\ Last(items) = snapshot(JobOf(1))

\* The workers that hold job j, and the places of j in the queue.
Holders(j) == {w \in DOMAIN workers : workers[w].job_id = j}
Queued(j) == {i \in 1..Len(queue) : queue[i] = j}

\* C17: with one or several workers on the shared queue, a job id is in the
\* queue at most once and exactly while the job is pending, a job is never
\* held by two workers, nor held while it is still queued; a worker takes
\* only the id at the head of the queue, which leaves the queue in the same
\* step, and takes only a pending job, which stops being pending in that
\* step, so that no id is handed out twice.
C17_OneWorkerPerJob ==
    /\ [](\A j \in DOMAIN jobs :
            /\ Cardinality(Queued(j)) + Cardinality(Holders(j)) <= 1
            /\ Queued(j) # {} <=> JobOf(j).status = PENDING
            /\ Holders(j) # {} => JobOf(j).status = RUNNING)
    /\ [][\A w \in DOMAIN workers' : \A j \in DOMAIN jobs :
            (workers'[w].job_id = j /\ (w \notin DOMAIN workers \/ workers[w].job_id # j)) =>
                /\ w \in DOMAIN workers
                /\ queue # << >> /\ Head(queue) = j
                /\ queue' = Tail(queue)
                /\ JobOf(j).status = PENDING
                /\ jobs'[j].job.status = RUNNING
                /\ Holders(j) = {}
                /\ \A v \in DOMAIN workers' : v # w => workers'[v] = workers[v]]_vars

\* Two workers are busy at the same time, each with a job of its own.
C17_Witness ==
    /\ Len(workers) = MaxWorkers
    /\ \E w1, w2 \in DOMAIN workers :
          /\ w1 # w2
          /\ workers[w1].job_id = 1 /\ workers[w1].pc = "download"
          /\ workers[w2].job_id = 2 /\ workers[w2].pc \in {"resolve", "download"}

\* C18: ids are handed out in the order of submission and wait in the queue
\* in that order; a job leaves pending only by being taken from the head of
\* the queue, and when it does every job submitted before it has already
\* left pending: no job overtakes an earlier one.
C18_FirstSubmittedFirstDequeued ==
    /\ [](/\ \A i, k \in 1..Len(queue) : i < k => queue[i] < queue[k]
          /\ \A a, b \in DOMAIN jobs :
                (a < b /\ JobOf(b).status # PENDING) => JobOf(a).status # PENDING)
    /\ [][\A b \in DOMAIN jobs :
            (JobOf(b).status = PENDING /\ jobs'[b].job.status # PENDING) =>
                /\ Head(queue) = b
                /\ jobs'[b].job.status = RUNNING
                /\ \A a \in DOMAIN jobs : a < b => JobOf(a).status # PENDING
                /\ \A a \in DOMAIN jobs : a > b => jobs'[a].job.status = PENDING]_vars

\* The second job is being worked on, and the first one, submitted before
\* it, was picked up and resolved before and is still running or completed.
C18_Witness ==
    /\ Len(jobs) = 2
    /\ JobOf(1).status \in {RUNNING, COMPLETED}
    /\ JobOf(2).status = RUNNING
    /\ Holders(2) # {}
    /\ resolved[1].outcome = "ok"

\* N = max(1, configured concurrency)
PoolSize == IF env.worker_concurrency >= 1 THEN env.worker_concurrency ELSE 1

\* C19: while the service is started it has exactly N = max(1, configured
\* concurrency) worker tasks, and none while it is stopped; start on a
\* stopped service creates N workers waiting at the queue and start on a
\* started one changes nothing; stop leaves no worker and stop on a stopped
\* service changes nothing; no other step creates or ends a worker.
C19_StartStopIdempotent ==
    /\ [](/\ started => Len(workers) = PoolSize
          /\ ~started => workers = << >>)
    /\ [][/\ last'.op = "start" =>
               /\ started' /\ Len(workers') = PoolSize
               /\ started =>
                    UNCHANGED <<started, jobs, queue, unfinished, global_subscribers,
                                chans, workers, files, track_log, resolved>>
               /\ ~started =>
                    /\ \A w \in DOMAIN workers' : workers'[w] = Idle
                    /\ UNCHANGED <<jobs, queue, unfinished, global_subscribers, chans>>
          /\ last'.op = "stop" =>
               /\ ~started' /\ workers' = << >>
               /\ ~started =>
                    UNCHANGED <<started, jobs, queue, unfinished, global_subscribers,
                                chans, workers, files, track_log, resolved>>
          /\ last'.op \notin {"start", "stop"} =>
               (started' = started /\ Len(workers') = Len(workers))]_vars

\* start has just been called on a service whose two workers are both in
\* the middle of a job: they are still the only two.
C19_Witness ==
    /\ last.op = "start"
    /\ started
    /\ Len(workers) = MaxWorkers
    /\ \A w \in DOMAIN workers : workers[w].pc = "download"

JobLevelErrors == {ErrStoreUnavailable, ErrResolve, ErrEmptyTracks, ErrTemplate}

\* C20: the step in which a job fails records the error on that job, leaves
\* every other job as it was, marks the queue item done and leaves the worker
\* that held the job alive at the top of its loop, the pool as large as
\* before; and a worker back at the top of its loop with an id waiting takes
\* the id at the head of the queue in the very next step and sets that job
\* running.
C20_FailureDoesNotStopWorker ==
    [][/\ \A j \in DOMAIN jobs : \A w \in DOMAIN workers :
            (workers[w].job_id = j /\ jobs'[j].job.status = FAILED
                                   /\ JobOf(j).status # FAILED) =>
                /\ JobOf(j).status = RUNNING
                /\ jobs'[j].job.error \in JobLevelErrors
                /\ jobs'[j].job.error = workers[w].exc
                /\ \A k \in DOMAIN jobs : k # j => jobs'[k] = jobs[k]
                /\ unfinished' = unfinished - 1
                /\ Len(workers') = Len(workers)
                /\ workers'[w] = [pc |-> IF queue = << >> THEN "idle" ELSE "next",
                                  job_id |-> 0, idx |-> 0, exc |-> NoExc]
                /\ \A v \in DOMAIN workers : v # w => workers'[v] = workers[v]
                /\ started' /\ queue' = queue
       /\ \A w \in DOMAIN workers :
            workers[w].pc = "next" =>
                /\ queue # << >>
                /\ workers'[w].pc = "exec"
                /\ workers'[w].job_id = Head(queue)
                /\ jobs'[Head(queue)].job.status = RUNNING]_vars

\* The only worker has failed the first job for want of its store, has gone
\* on to the second one, which was waiting behind it, and has completed it.
C20_Witness ==
    /\ Len(workers) = 1
    /\ Len(jobs) = 2
    /\ JobOf(1).status = FAILED
    /\ JobOf(1).error = ErrStoreUnavailable
    /\ JobOf(2).status = COMPLETED
    /\ JobOf(1).finished_at < JobOf(2).finished_at
    /\ JobOf(2).completed_tracks = 1

\* The track the worker w is looking at, when it is looking at one.
AtTrack(w) ==
    /\ workers[w].pc \in {"loop", "download"}
    /\ workers[w].idx \in 1..Len(resolved[workers[w].job_id].tracks)
TrackOf(w) == resolved[workers[w].job_id].tracks[workers[w].idx]

\* C21: a worker that comes to a track without ISRC, no cancellation being
\* requested, counts it in failed_tracks in that very step, leaves
\* completed_tracks, progress and the files on disk alone, sends the new
\* snapshot to every listener with room and stays in the loop at the next
\* track with the job still running; the store is never asked for such a
\* track: no worker ever waits in download_track on a track without ISRC.
C21_MissingIsrcCountsAsFailed ==
    /\ [](\A w \in DOMAIN workers :
            workers[w].pc = "download" => (AtTrack(w) /\ TrackOf(w).isrc))
    /\ [][\A w \in DOMAIN workers :
            (/\ workers[w].pc = "loop"
             /\ AtTrack(w)
             /\ ~jobs[workers[w].job_id].cancel_requested
             /\ ~TrackOf(w).isrc) =>
                LET j == workers[w].job_id IN
                /\ jobs'[j].job.failed_tracks = JobOf(j).failed_tracks + 1
                /\ jobs'[j].job.completed_tracks = JobOf(j).completed_tracks
                /\ jobs'[j].job.progress = JobOf(j).progress
                /\ jobs'[j].job.downloaded_files = JobOf(j).downloaded_files
                /\ jobs'[j].job.status = RUNNING
                /\ files' = files
                /\ track_log'[j] = Append(track_log[j], "noisrc")
                /\ workers'[w] = [workers[w] EXCEPT !.idx = @ + 1]
                /\ \A i \in 1..Len(ListenersOf(j)) :
                      HasRoom(ListenersOf(j)[i]) =>
                          Delivered(ListenersOf(j)[i], snapshot(jobs'[j].job))]_vars

\* A running job has met several tracks without ISRC in a row and counted
\* each as failed, and a subscriber of the job holds the snapshots of the
\* last two, one failure apart.
C21_Witness ==
    \E j \in DOMAIN jobs : \E i \in 1..Len(jobs[j].subscribers) :
        LET items == chans[jobs[j].subscribers[i]].items
            n == Len(items) IN
        /\ Len(track_log[j]) >= 2
        /\ \A k \in 1..Len(track_log[j]) : track_log[j][k] = "noisrc"
        /\ JobOf(j).status = RUNNING
        /\ JobOf(j).failed_tracks = Len(track_log[j])
        /\ JobOf(j).completed_tracks = 0
        /\ n >= 2
        /\ items[n] = snapshot(JobOf(j))
        /\ items[n - 1].failed_tracks = JobOf(j).failed_tracks - 1

\* C22: in every reachable state a job has an error exactly when it is
\* failed, and so has every snapshot of it waiting in a subscriber queue:
\* a failed job carries the cause the worker recorded, and a pending,
\* running, completed or cancelled one has none.
C22_ErrorIffFailed ==
    /\ \A j \in DOMAIN jobs :
          /\ JobOf(j).error # None <=> JobOf(j).status = FAILED
          /\ JobOf(j).status = FAILED => JobOf(j).error \in JobLevelErrors
    /\ \A q \in ChanIds : \A i \in 1..Len(chans[q].items) :
          chans[q].items[i].error # None <=> chans[q].items[i].status = FAILED

\* One job has failed on an empty source and carries that cause; the other
\* one was cancelled on request and has finished without an error.
C22_Witness ==
    /\ Len(jobs) = 2
    /\ JobOf(1).status = FAILED
    /\ JobOf(1).error = ErrEmptyTracks
    /\ JobOf(2).status = CANCELLED
    /\ jobs[2].cancel_requested
    /\ JobOf(2).error = None

\* C23: a completed job, and every snapshot of a completed job waiting in a
\* subscriber queue, has at least one track and completed_tracks +
\* failed_tracks = total_tracks, the loop having handled each track once;
\* and when the store was asked for every track and succeeded on each, then
\* completed_tracks = total_tracks, failed_tracks = 0 and progress = 1.
C23_CompletedAccountsForEveryTrack ==
    /\ \A j \in DOMAIN jobs :
          JobOf(j).status = COMPLETED =>
              /\ JobOf(j).total_tracks >= 1
              /\ JobOf(j).completed_tracks + JobOf(j).failed_tracks = JobOf(j).total_tracks
              /\ Len(track_log[j]) = JobOf(j).total_tracks
              /\ (\A k \in 1..Len(track_log[j]) : track_log[j][k] = "ok") =>
                    /\ JobOf(j).completed_tracks = JobOf(j).total_tracks
                    /\ JobOf(j).failed_tracks = 0
                    /\ RatioEq(JobOf(j).progress, One)
    /\ \A q \in ChanIds : \A i \in 1..Len(chans[q].items) :
          LET snap == chans[q].items[i] IN
          snap.status = COMPLETED =>
              /\ snap.total_tracks >= 1
              /\ snap.completed_tracks + snap.failed_tracks = snap.total_tracks

\* A job of two tracks, both with an ISRC and both downloaded by the store,
\* is completed with 2 of 2 and progress 1.
C23_Witness ==
    \E j \in DOMAIN jobs :
        /\ JobOf(j).status = COMPLETED
        /\ track_log[j] = <<"ok", "ok">>
        /\ \A k \in 1..2 : resolved[j].tracks[k].isrc
        /\ JobOf(j).total_tracks = 2
        /\ JobOf(j).completed_tracks = 2
        /\ JobOf(j).failed_tracks = 0
        /\ RatioEq(JobOf(j).progress, One)

\* progress of a job record or snapshot is completed_tracks / total_tracks,
\* or 0 when there is no track.
ProgressExact(job) ==
    IF job.total_tracks > 0
    THEN RatioEq(job.progress, Ratio(job.completed_tracks, job.total_tracks))
    ELSE job.progress = Zero

\* C24: in every reachable state, whatever the tracks handled so far came to
\* (downloaded, failed in the store, without ISRC, already on disk, cancelled
\* in the store), every job and every snapshot waiting in a subscriber queue
\* has progress = completed_tracks / total_tracks when total_tracks > 0 and
\* progress = 0 otherwise.
C24_ProgressIsCompletedOverTotal ==
    /\ \A j \in DOMAIN jobs : ProgressExact(JobOf(j))
    /\ \A q \in ChanIds : \A i \in 1..Len(chans[q].items) :
          ProgressExact(chans[q].items[i])

\* A job of three tracks has downloaded one, found one without ISRC and
\* failed on one: its progress is 1/3.
C24_Witness ==
    \E j \in DOMAIN jobs :
        /\ JobOf(j).total_tracks = 3
        /\ Len(track_log[j]) = 3
        /\ \A kind \in {"ok", "noisrc", "err"} :
              \E k \in 1..3 : track_log[j][k] = kind
        /\ JobOf(j).completed_tracks = 1
        /\ JobOf(j).progress = Ratio(1, 3)

\* The destinations of the tracks of job j that its store has downloaded.
Placed(j) ==
    {resolved[j].tracks[k].dest : k \in {i \in 1..Len(track_log[j]) : track_log[j][i] = "ok"}}

\* C25: downloaded_files of a job never holds a path twice, also when a
\* file the job has downloaded disappears and a later track of the job is
\* downloaded to the same path; its entries are exactly the destinations of
\* the tracks the job's store has downloaded, so that tracks that failed,
\* had no ISRC, were found on disk or were cancelled contribute none; and
\* the list changes only in the step in which the store returns a file,
\* which is then at its destination, by that destination being appended.
C25_DownloadedFilesDistinctAndPlaced ==
    /\ [](\A j \in DOMAIN jobs :
            LET listed == JobOf(j).downloaded_files IN
            /\ \A a, b \in 1..Len(listed) : a # b => listed[a] # listed[b]
            /\ {listed[a] : a \in 1..Len(listed)} = Placed(j))
    /\ [][\A j \in DOMAIN jobs :
            jobs'[j].job.downloaded_files # JobOf(j).downloaded_files =>
                \E w \in DOMAIN workers :
                    /\ WorkerOn(w, j) /\ workers[w].pc = "download"
                    /\ track_log'[j] = Append(track_log[j], "ok")
                    /\ TrackOf(w).dest \in files'
                    /\ jobs'[j].job.downloaded_files =
                           Append(JobOf(j).downloaded_files, TrackOf(w).dest)]_vars

\* A job has downloaded a track, the file has disappeared, and the job has
\* downloaded a later track to the same path: the path is listed once; a
\* third track, which failed, is not listed.
C25_Witness ==
    \E j \in DOMAIN jobs :
        /\ Len(track_log[j]) = 3
        /\ track_log[j][1] = "ok" /\ track_log[j][2] = "ok" /\ track_log[j][3] = "err"
        /\ resolved[j].tracks[1].dest = resolved[j].tracks[2].dest
        /\ resolved[j].tracks[3].dest # resolved[j].tracks[1].dest
        /\ JobOf(j).completed_tracks = 2
        /\ JobOf(j).downloaded_files = <<resolved[j].tracks[1].dest>>

Blank(s) == \A i \in 1..Len(s) : s[i] \in Whitespace
\* t is s without its leading and trailing whitespace.
Trimmed(s, t) ==
    /\ t # << >>
    /\ t[1] \notin Whitespace /\ t[Len(t)] \notin Whitespace
    /\ \E k \in 0..(Len(s) - Len(t)) :
          /\ SubSeq(s, k + 1, k + Len(t)) = t
          /\ Blank(SubSeq(s, 1, k))
          /\ Blank(SubSeq(s, k + Len(t) + 1, Len(s)))

\* C26: _resolve_template answers the persisted layout mode and, as the
\* template, the request's template without its leading and trailing
\* whitespace when that template is not blank; otherwise the persisted
\* template of the persisted mode (the single-folder one in single-folder
\* mode, the by-artist one otherwise) when it is not empty; otherwise the
\* default template of the storage manager.
C26_TemplatePriority ==
    (last.op = "_resolve_template" /\ last.done) =>
        LET asked == last.id.request.path_template
            download == last.id.settings.download
            persisted == IF download.mode = SINGLE_FOLDER
                         THEN download.single_folder_template
                         ELSE download.by_artist_template
        IN /\ last.result.mode = download.mode
           /\ ~Blank(asked) => Trimmed(asked, last.result.template)
           /\ (Blank(asked) /\ persisted # << >>) => last.result.template = persisted
           /\ (Blank(asked) /\ persisted = << >>) => last.result.template = default_template

\* A request whose template is only whitespace, made while single-folder
\* mode is persisted with both templates set, gets the single-folder
\* template.
C26_Witness ==
    /\ last.op = "_resolve_template" /\ last.done
    /\ last.id.request.path_template = <<" ", " ">>
    /\ last.id.settings.download.mode = SINGLE_FOLDER
    /\ last.id.settings.download.by_artist_template = DEFAULT_ARTIST_TEMPLATE
    /\ last.result = [template |-> DEFAULT_SINGLE_TEMPLATE, mode |-> SINGLE_FOLDER]


\* The name build_track_path takes for the playlist of a job (storage.py 28-30).
PlaylistName(job) ==
    Or(job.collection_name, Or(job.message, <<"P", "l", "a", "y", "l", "i", "s", "t">>))
\* What render_path makes of the template of a build_track_path call, the
\* playlist name in its context whenever the call puts it there.
Rendered(call) ==
    LET template == Or(call.id.job.path_template, default_template)
        context == as_context(call.id.track)
    IN render_path(template,
                   IF references_playlist(template) \/ call.id.job.mode = SINGLE_FOLDER
                   THEN [key \in DOMAIN context \cup {"playlist"} |->
                            IF key = "playlist" THEN PlaylistName(call.id.job)
                            ELSE context[key]]
                   ELSE context)
BuiltPath(call) == call.op = "build_track_path" /\ call.done /\ call.result.exc = NoExc

\* C27: whenever build_track_path returns a path, in either mode: if the
\* template does not reference {playlist}, the parts of the path are those
\* of the download root, then the sanitized playlist name (collection name,
\* else job message, else "Playlist") as one segment, then the rendered
\* template; if the template references {playlist}, the path is the
\* download root joined with the rendered template and nothing else.
C27_PlaylistSegmentFirst ==
    BuiltPath(last) =>
        LET template == Or(last.id.job.path_template, default_template)
        IN IF references_playlist(template)
           THEN last.result.path = Join(download_dir, Rendered(last).path)
           ELSE last.result.path.parts =
                    download_dir.parts
                    \o <<sanitize_component(PlaylistName(last.id.job))>>
                    \o Rendered(last).path.parts


\* C28: whenever build_track_path returns a path for a job submitted with
\* the explicit template "{artist}/{album}/{track:02d} - {title}.{ext}"
\* whose source has a collection name, the path is the download root joined
\* with the rendered template and nothing else.
C28_ExplicitTemplateUnderRootOnly ==
    (/\ BuiltPath(last)
     /\ last.id.job.path_template = DEFAULT_ARTIST_TEMPLATE
     /\ last.id.job.collection_name # << >>) =>
        last.result.path =
            Join(download_dir,
                 render_path(DEFAULT_ARTIST_TEMPLATE, as_context(last.id.track)).path)


\* What sanitize_component promises of a str.
Clean(s) ==
    /\ s # << >>
    /\ \A i \in 1..Len(s) : s[i] \notin INVALID_PATH_CHARS
    /\ \A i \in 1..(Len(s) - 1) : ~(s[i] = "." /\ s[i + 1] = ".")
    /\ \A i \in 1..(Len(s) - 1) : ~(s[i] \in Whitespace /\ s[i + 1] \in Whitespace)
    /\ s[1] \notin Whitespace /\ s[Len(s)] \notin Whitespace

\* C29: whatever str sanitize_component is called on, it returns a
\* non-empty str with no invalid path character, no "..", no two
\* whitespace characters in a row and no whitespace at either end; a str
\* made of whitespace only, the empty one included, gives "Unknown"; the
\* result sanitizes to itself; and render_path on the by-artist template
\* with artist "a/b" gives "a_b" as its first segment and the two-digit
\* track number at the head of the file name.
C29_SanitizedComponent ==
    /\ (last.op = "sanitize_component" /\ last.done) =>
          /\ Clean(last.result)
          /\ strip(last.id) = << >> => last.result = Unknown
          /\ sanitize_component(last.result) = last.result
    /\ (/\ last.op = "render_path" /\ last.done
        /\ last.id.template = DEFAULT_ARTIST_TEMPLATE
        /\ last.id.context["artist"] = <<"a", "/", "b">>) =>
          /\ last.result.exc = NoExc
          /\ Len(last.result.path.parts) = 3
          /\ last.result.path.parts[1] = <<"a", "_", "b">>
          /\ SubSeq(last.result.path.parts[3], 1, 2) = format_02d(last.id.context["track"])
C29_Witness ==
    /\ last.op = "sanitize_component" /\ last.done
    /\ last.id = <<"/", ".", ".", "\t">>
    /\ last.result = <<"_", "_">>


\* The parts of an absolute path once every ".." segment has taken back the
\* segment before it (at the root, ".." stays at the root).
Normal(parts) ==
    LET F[i \in 0..Len(parts)] ==
            IF i = 0 THEN << >>
            ELSE IF parts[i] # <<".", ".">> THEN Append(F[i - 1], parts[i])
            ELSE IF F[i - 1] = << >> THEN << >>
            ELSE SubSeq(F[i - 1], 1, Len(F[i - 1]) - 1)
    IN F[Len(parts)]
\* The path names something below the directory.
Under(directory, path) ==
    /\ path.root = directory.root
    /\ Len(Normal(path.parts)) > Len(directory.parts)
    /\ SubSeq(Normal(path.parts), 1, Len(directory.parts)) = directory.parts

\* C30: whenever render_path returns a path, the path is relative, and
\* whenever build_track_path returns a path, the path lies below the
\* download root.
C30_DestinationUnderDownloadRoot ==
    /\ (last.op = "render_path" /\ last.done /\ last.result.exc = NoExc) =>
          ~last.result.path.root
    /\ BuiltPath(last) => Under(download_dir, last.result.path)


\* The exception the specification names for a template that cannot be
\* rendered; the code defines no such class (core/exceptions.py).
TemplateError == "TemplateError"
\* The template has a replacement field whose key the context lacks.
MissingField(template, context) ==
    \E i \in 1..Len(template) :
        template[i] \in Fields /\ FieldKey[template[i]] \notin DOMAIN context

Executing(store) == (IF store.owner # 0 THEN 1 ELSE 0) + store.orphans

\* C32: in every reachable state, whatever the number of workers and
\* whether or not stop() has cancelled a worker during a download, each
\* store provider has at most one call of its downloader executing.
C32_OneDownloadPerStore == \A s \in DOMAIN stores : Executing(stores[s]) <= 1


\* The workers that are processing job j: between taking its id from the
\* queue and the end of this pass of the loop of _worker.
OwnersOf(j) == {w \in DOMAIN workers : workers[w].job_id = j /\ workers[w].pc \notin {"idle", "next"}}
RunningJobs == {j \in DOMAIN jobs : jobs[j].job.status = RUNNING}

\* C33: in every reachable state, each job in status running is being
\* processed by exactly one worker, and the number of jobs in status
\* running is at most the worker concurrency.
C33_RunningJobsAreOwned ==
    /\ \A j \in RunningJobs : Cardinality(OwnersOf(j)) = 1
    /\ Cardinality(RunningJobs) <= worker_concurrency


\* The workers that hold a queue item they have not yet acknowledged.
Unacknowledged == {w \in DOMAIN workers : workers[w].pc \notin {"idle", "next"}}

WithRoom(listed) == SelectSeq(listed, HasRoom)

\* C35: a cancel_job call on a known job leaves every field of the job's
\* record but the message as it was (status, progress, the three counters,
\* error, finished_at, downloaded_files among them) and sets the
\* cancellation flag; it leaves every other job with its subscriber list,
\* the work queue and its count of unfinished items, the workers, the
\* files and the started flag untouched; of the target job's subscriber
\* list and the global list it removes the queues that are full and nothing
\* else; and it touches no subscriber queue but those two lists' queues with
\* room.
C35_CancelJobFrame ==
    [][(last'.op = "cancel_job" /\ last'.result = "true") =>
            LET j == last'.id IN
            /\ jobs'[j].job = [JobOf(j) EXCEPT !.message = MsgCancelRequested]
            /\ jobs'[j].cancel_requested
            /\ jobs'[j].subscribers = WithRoom(jobs[j].subscribers)
            /\ global_subscribers' = WithRoom(global_subscribers)
            /\ \A k \in DOMAIN jobs : k # j => jobs'[k] = jobs[k]
            /\ DOMAIN jobs' = DOMAIN jobs
            /\ \A q \in ChanIds :
                  (~Contains(WithRoom(jobs[j].subscribers), q)
                   /\ ~Contains(WithRoom(global_subscribers), q)) => chans'[q] = chans[q]
            /\ UNCHANGED <<started, queue, unfinished, workers, files, track_log,
                           resolved, stores>>]_vars
\* cancel_job has just answered true on a job that had ended with every
\* track of a long source failed, while a global subscriber queue was full
\* with the job's final snapshot as its last item: status and counters
\* stand, and the full queue is off the list.
C35_Witness ==
    /\ last.op = "cancel_job" /\ last.result = "true"
    /\ JobOf(last.id).status = COMPLETED
    /\ JobOf(last.id).failed_tracks = BurstLen
    /\ JobOf(last.id).message = MsgCancelRequested
    /\ \E q \in ChanIds :
          /\ chans[q].maxsize = GlobalQueueMaxsize
          /\ Len(chans[q].items) = GlobalQueueMaxsize
          /\ Last(chans[q].items).status = COMPLETED
          /\ ~Listed(q, jobs, global_subscribers)


\* The runs in which cancel_job is only ever called for a job no worker has
\* taken yet: a call that finds its job finds it pending.
CancelsArePending ==
    (last'.op = "cancel_job" /\ last'.result = "true") =>
        JobOf(last'.id).status = PENDING

CancelPendingJob == CancelJob /\ CancelsArePending

NextPending ==
    \/ Start
    \/ Stop
    \/ SubmitJob
    \/ CancelPendingJob
    \/ SubscribeJob
    \/ UnsubscribeJob
    \/ SubscribeGlobal
    \/ UnsubscribeGlobal
    \/ Get
    \/ \E w \in DOMAIN workers : WorkerNext(w)
    \/ ThreadReturn

SpecPending == InitIn(PoolProfiles) /\ [][NextPending]_vars

\* The store provider has not been asked for any track of job j.
StoreNotInvoked(j) ==
    /\ Count(track_log[j], {"ok", "err", "cancelled"}) = 0
    /\ \A w \in DOMAIN workers : ~(workers[w].job_id = j /\ workers[w].pc = "download")
\* Job j, if it has ended, was cancelled without an error and without a track
\* counted.
EndedCancelled(j) ==
    finished(JobOf(j).status) =>
        /\ JobOf(j).status = CANCELLED
        /\ JobOf(j).error = None
        /\ JobOf(j).completed_tracks = 0
        /\ JobOf(j).failed_tracks = 0

\* C36: in the runs where every cancellation arrives while its job is
\* pending, the store provider is never invoked for a job whose cancellation
\* was requested, and such a job, once ended, has status cancelled, no error
\* and both track counters at 0, whatever resolve returns.
C36_CancelWhilePendingEndsCancelled ==
    \A j \in DOMAIN jobs :
        jobs[j].cancel_requested => (StoreNotInvoked(j) /\ EndedCancelled(j))


\* The template of job j references a field that no context of
\* build_track_path has.
Unrenderable(j) ==
    ~(JobOf(j).path_template \subseteq {"artist", "album", "title", "track", "ext", "playlist"})

\* C37: a job whose template cannot be rendered never gets as far as the
\* existing-file check or the store with any track: the only tracks its loop
\* handles are those without an ISRC.  The step in which the error of the
\* template becomes the job's error sets the status to failed and leaves the
\* counters, the progress and the list of handled tracks as they were; the
\* job then has a track with an ISRC that was not handled, the tracks before
\* it are counted as failed for want of an ISRC, and no track is counted as
\* completed.  No job that can be rendered gets that error.
C37_PathErrorFailsJob ==
    /\ [](\A j \in DOMAIN jobs :
            /\ Unrenderable(j) => Count(track_log[j], {"exists", "ok", "err", "cancelled"}) = 0
            /\ JobOf(j).error = ErrTemplate =>
                  /\ Unrenderable(j)
                  /\ JobOf(j).status = FAILED
                  /\ Len(track_log[j]) < JobOf(j).total_tracks
                  /\ resolved[j].tracks[Len(track_log[j]) + 1].isrc
                  /\ JobOf(j).failed_tracks = Len(track_log[j])
                  /\ JobOf(j).completed_tracks = 0)
    /\ [][\A j \in DOMAIN jobs :
            (jobs'[j].job.error = ErrTemplate /\ JobOf(j).error # ErrTemplate) =>
                /\ jobs'[j].job = [JobOf(j) EXCEPT !.status = FAILED, !.error = ErrTemplate,
                                                   !.finished_at = jobs'[j].job.finished_at]
                /\ JobOf(j).status = RUNNING
                /\ track_log' = track_log
                /\ files' = files]_vars
\* A job whose template names {year} has failed at its second track, the
\* first of its two tracks with an ISRC; the first track, without an ISRC,
\* is the only one counted.
C37_Witness ==
    \E j \in DOMAIN jobs :
        /\ JobOf(j).status = FAILED
        /\ JobOf(j).error = ErrTemplate
        /\ JobOf(j).total_tracks = 3
        /\ JobOf(j).failed_tracks = 1
        /\ JobOf(j).completed_tracks = 0
        /\ track_log[j] = <<"noisrc">>
        /\ resolved[j].tracks[3].isrc


\* C38: in a run in which the service is not stopped, in which every worker
\* task that can take a step eventually takes one and every awaited resolve
\* and store call eventually returns or raises, every submitted job
\* eventually has a terminal status.
C38_EveryJobEnds ==
    \A j \in 1..MaxJobs :
        (j \in DOMAIN jobs) ~> (j \in DOMAIN jobs /\ finished(JobOf(j).status))
\* Two jobs for the same store met a pool of two workers, and both have
\* completed with their file downloaded.
C38_Witness ==
    /\ Len(workers) = MaxWorkers
    /\ Len(jobs) = 2
    /\ \A j \in DOMAIN jobs : JobOf(j).status = COMPLETED /\ track_log[j] = <<"ok">>
    /\ unfinished = 0


PendingJobs == {j \in DOMAIN jobs : JobOf(j).status = PENDING}

\* C39: the queue always holds exactly the pending jobs, each once, in the
\* order of their submission; a stop() leaves the queue and every pending
\* job as they were; a job stops being pending only when a worker of a
\* started service takes it from the head of the queue, so the pending jobs
\* are taken in the order of their submission; and while the service is
\* started, after a restart as well, a pending job is eventually taken
\* unless the service is stopped first.
C39_PendingJobsSurviveStop ==
    /\ [](/\ {queue[i] : i \in 1..Len(queue)} = PendingJobs
          /\ \A i \in 1..(Len(queue) - 1) : queue[i] < queue[i + 1])
    /\ [][(started /\ ~started') =>
              /\ queue' = queue
              /\ \A j \in PendingJobs : jobs'[j] = jobs[j]]_vars
    /\ [][\A j \in PendingJobs :
              jobs'[j].job.status # PENDING =>
                  /\ started /\ started'
                  /\ Head(queue) = j /\ queue' = Tail(queue)
                  /\ jobs'[j].job.status = RUNNING]_vars
    /\ \A j \in 1..MaxJobs :
          (started /\ j \in PendingJobs) ~> (~started \/ j \notin PendingJobs)
\* stop() has just been called on a service whose worker was in the middle
\* of the first job while the second job waited:
\* the second job is still pending and still queued.
C39_Witness ==
    /\ last.op = "stop"
    /\ ~started
    /\ Len(jobs) = 2
    /\ JobOf(1).status = RUNNING
    /\ JobOf(2).status = PENDING
    /\ queue = <<2>>


\* The tracks, as pairs of job and position, that the store has delivered
\* to destination p.
DownloadsTo(p) ==
    {<<j, i>> \in JobIds \X (1..MaxTracks) :
        /\ i <= Len(track_log[j])
        /\ track_log[j][i] = "ok"
        /\ resolved[j].tracks[i].dest = p}
\* The workers whose download for destination p holds the lock of its store.
InFlightTo(p) ==
    {w \in DOMAIN workers :
        /\ workers[w].pc = "download"
        /\ TrackOf(w).dest = p
        /\ stores[JobOf(workers[w].job_id).store].owner = w}

\* C40: in every reachable state, with one worker or several, each
\* destination has at most one store download in flight, and the store has
\* delivered a file to it at most once: every other track with that
\* destination was counted through the existing-file check.
C40_DestinationDownloadedOnce ==
    \A p \in Paths :
        /\ Cardinality(InFlightTo(p)) <= 1
        /\ Cardinality(DownloadsTo(p)) <= 1

====
